---------------------------- MODULE Spec2Model ----------------------------
(***************************************************************************)
(* A model of the chunked record reformatter of                            *)
(* src/Nanci_reformat_example(xyz).py: process_file reads a text file of   *)
(* blocks (count line, metadata line, n atom lines) with readline() and    *)
(* writes the accepted blocks, with a synthesized header, to a new file.   *)
(*                                                                         *)
(* A text line is a record [lead, toks, trail]: whether it starts with     *)
(* whitespace, its whitespace-separated tokens, whether it ends with       *)
(* whitespace.  A string returned by readline(), or handed to write(), is  *)
(* [text, nl]: the text and the number of "\n" that end it.  The empty     *)
(* string (what readline() returns at end of file) is [EmptyText, 0].      *)
(*                                                                         *)
(* Further sections model the older reformat() of                          *)
(* src/Nanci_reformat&ingest_example(xyz).py (SpecOld), main() and the     *)
(* module-level statements of the ingest scripts (SpecIngest), and         *)
(* reader_OrbNet_from_df of src/OrbNet(xyz_in_folder).py (SpecReader).     *)
(***************************************************************************)
EXTENDS Integers, Sequences, FiniteSets, TLC

\* Longest input file, in lines, that Init draws.
MaxLines == 5

----------------------------------------------------------------------------
(* Tokens and lines *)

\* A token is the text pre followed by a body: an integer literal of value v,
\* a word (number v of a small vocabulary of non-integer words), or nothing.
IntTok(k) == [pre |-> "", body |-> "int", v |-> k]
Word(k) == [pre |-> "", body |-> "word", v |-> k]

METADATA_INDICES == <<16, 18, 20, 22, 24, 26, 28, 30, 32, 34>>

SeqMax(s) == CHOOSE m \in {s[j] : j \in DOMAIN s} : \A j \in DOMAIN s : s[j] <= m

\* A metadata line of len tokens whose token at 0-based position p is the
\* word number p.
MetaToks(len) == [j \in 1..len |-> Word(j - 1)]

\* The header of a written block.
LABELS == <<"CCSD(T)/CBS=", "CCSD(T)/haTZ=", "MP2/haTZ=", "MP2/CBS=",
            "MP2/aTZ=", "MP2/aQZ=", "HF/haTZ=", "HF/aTZ=", "HF/aQZ=",
            "SAPT2+/aDZTot=">>

MARKER == [pre |-> "Properties=species:S:1:pos:R:3", body |-> "none", v |-> 0]

\* The text label followed by the text of token tok.
Labelled(label, tok) == [pre |-> label, body |-> tok.body, v |-> tok.v]

\* A slip: the indices taken as 1-based positions.
ExtractMeta_oneBased(meta_tokens) ==
    [k \in 1..Len(METADATA_INDICES) |-> meta_tokens[METADATA_INDICES[k]]]

\* [meta_tokens[i] for i in METADATA_INDICES]; Python's indices are 0-based.
ExtractMeta(meta_tokens) ==
    [k \in 1..Len(METADATA_INDICES) |-> meta_tokens[METADATA_INDICES[k] + 1]]

\* Line 100 raises IndexError when an index is not below len(meta_tokens).
ExtractRaises(meta_tokens) ==
    \E k \in DOMAIN METADATA_INDICES :
        METADATA_INDICES[k] >= Len(meta_tokens)

\* A slip: > where >= is meant.
MetaTooShort_gt(meta_tokens) == SeqMax(METADATA_INDICES) > Len(meta_tokens)

\* A slip: a metadata line needs one token more than the largest index.
MetaTooShort_offByOne(meta_tokens) ==
    SeqMax(METADATA_INDICES) + 1 >= Len(meta_tokens)

\* max(METADATA_INDICES) >= len(meta_tokens)
MetaTooShort(meta_tokens) == SeqMax(METADATA_INDICES) >= Len(meta_tokens)

\* "...{0} ... {9} Properties=...".format(*meta_values) raises IndexError when
\* fewer than ten values are given; the fallback then labels every value
\* "meta:".
Header(values) ==
    IF Len(values) >= Len(LABELS)
    THEN [lead |-> FALSE,
          toks |-> [k \in 1..Len(LABELS) |-> Labelled(LABELS[k], values[k])]
                   \o <<MARKER>>,
          trail |-> FALSE]
    ELSE [lead |-> FALSE,
          toks |-> [k \in 1..Len(values) |-> Labelled("meta:", values[k])]
                   \o <<MARKER>>,
          trail |-> FALSE]

\* f"{n_atoms}": the decimal spelling of the count.
CountText(n) == [lead |-> FALSE, toks |-> <<IntTok(n)>>, trail |-> FALSE]

\* What fout.write(t + "\n") appends to the output.
Written(t) == [text |-> t, nl |-> 1]

\* The three writes of one block: count line, header line, atom lines.
BlockOutput(n, values, lines) ==
    <<Written(CountText(n)), Written(Header(values))>>
    \o [k \in 1..Len(lines) |-> Written(lines[k])]

\* The input lines the model draws from, by name:
\*   "e"                the empty line
\*   "0" "1" "2" "-1"   a line holding that integer literal ("1" with a
\*                      trailing blank, "2" with a leading one)
\*   "m34" "m35"        a metadata line of 34 / 35 tokens
\* process_file never looks into an atom line: each of these lines also
\* stands for an atom line where the input has it in that place.
LineIds == {"e", "0", "1", "2", "-1", "m34", "m35"}

\* More lines, which Init never draws: "w", a line of blanks, and the lines
\* process_file writes: "h", the header line for the metadata line "m35",
\* and "c1", "c2", the counts 1 and 2 with no blank around them; and "m36", a
\* metadata line of 36 tokens.
LineNames == LineIds \cup {"w", "h", "c1", "c2", "m36"}

TextTable ==
    [id \in LineNames |->
        CASE id = "e" -> [lead |-> FALSE, toks |-> <<>>, trail |-> FALSE]
          [] id = "0" -> [lead |-> FALSE, toks |-> <<IntTok(0)>>, trail |-> FALSE]
          [] id = "1" -> [lead |-> FALSE, toks |-> <<IntTok(1)>>, trail |-> TRUE]
          [] id = "2" -> [lead |-> TRUE, toks |-> <<IntTok(2)>>, trail |-> FALSE]
          [] id = "-1" -> [lead |-> FALSE, toks |-> <<IntTok(-1)>>, trail |-> FALSE]
          [] id = "m34" -> [lead |-> FALSE, toks |-> MetaToks(34), trail |-> FALSE]
          [] id = "m35" -> [lead |-> FALSE, toks |-> MetaToks(35), trail |-> FALSE]
          [] id = "w" -> [lead |-> TRUE, toks |-> <<>>, trail |-> FALSE]
          [] id = "h" -> Header(ExtractMeta(MetaToks(35)))
          [] id = "c1" -> CountText(1)
          [] id = "c2" -> CountText(2)
          [] id = "m36" -> [lead |-> FALSE, toks |-> MetaToks(36), trail |-> FALSE]]

\* The characters of the line named id, its newline left out.
Text(id) == TextTable[id]

EmptyText == [lead |-> FALSE, toks |-> <<>>, trail |-> FALSE]
EmptyString == [text |-> EmptyText, nl |-> 0]

\* str.strip(): leading and trailing whitespace, the newline included, removed.
\* A text without tokens is whitespace only and strips to the empty text.
Strip(s) == [lead |-> FALSE, toks |-> s.text.toks, trail |-> FALSE]

\* A slip: line[:-1], which cuts the last character of a line that has no
\* newline (a trailing blank, or else the last token).
RstripNL_chop(s) ==
    IF s.nl = 1 THEN s.text
    ELSE IF s.text.trail
         THEN [lead |-> s.text.lead, toks |-> s.text.toks, trail |-> FALSE]
         ELSE [lead |-> s.text.lead,
               toks |-> SubSeq(s.text.toks, 1, Len(s.text.toks) - 1),
               trail |-> Len(s.text.toks) > 1]

\* A slip: line.strip() where line.rstrip('\n') is meant.
RstripNL_strip(s) == [lead |-> FALSE, toks |-> s.text.toks, trail |-> FALSE]

\* str.rstrip('\n'): only the ending newlines removed.
RstripNL(s) == s.text

\* str.split(): the whitespace-separated tokens.
Split(t) == t.toks

\* int(t) raises ValueError unless t is one integer literal.
IsIntText(t) ==
    /\ Len(t.toks) = 1
    /\ t.toks[1].pre = ""
    /\ t.toks[1].body = "int"

IntOf(t) == t.toks[1].v

----------------------------------------------------------------------------
(* The state of one process_file call *)

VARIABLES
    input,        \* the input file: its lines, by name
    finalNL,      \* whether the last line of the input ends with "\n"
    pos,          \* fin's position: the number of the next line to read
    pc,           \* where process_file is: scan, meta, skip, atoms, done
    n_atoms,      \* the parsed count of the current block
    meta_values,  \* the selected metadata tokens of the current block
    atom_lines,   \* the atom lines read so far for the current block
    i,            \* iterations done of the current for loop
    block_count,  \* blocks written so far
    out,          \* the output file: the strings written, one per line
    log,          \* the logger's records, in order
    start,        \* history: the line number of the current block's count line
    hist          \* history: one event per step taken, in order

(* What lies outside one process_file call *)
VARIABLES
    fs,           \* the file system: the node (file or directory) at each path
    listing,      \* process_directory: sorted(os.listdir(target_dir))
    idx,          \* process_directory: the number of the entry being looked at
    args,         \* process_directory's arguments: target_dir, patterns, out_dir
    call,         \* the current process_file call: file_path, out_path
    calls,        \* history: the process_file calls made, in order
    tasks,        \* the parallel tasks, one per file, where files are
                  \* processed as tasks
    prev          \* history: what an earlier run on the same file produced

(* The other programs of the repository *)
VARIABLES
    reformat,     \* the older reformat function: the locals of its call
    script,       \* an ingest script executed as __main__: where it is, the
                  \* locals of main(), the database
    reader        \* reader_OrbNet_from_df: the locals of its call

others == <<reformat, script, reader>>

dirpass == <<fs, listing, idx, args, call, calls, tasks, prev>>

outer == <<dirpass, others>>

vars == <<input, finalNL, pos, pc, n_atoms, meta_values, atom_lines, i,
          block_count, out, log, start, hist, outer>>

SeqsUpTo(S, n) == UNION {[1..k -> S] : k \in 0..n}

\* A file's last line may lack its newline only if it is not empty.
IsFile(lines, nl) ==
    \/ nl
    \/ /\ lines # <<>>
       /\ Text(lines[Len(lines)]) # EmptyText

\* fin.readline() at line p: the line with its newline, or "" at end of file.
ReadLine(p) ==
    IF p > Len(input)
    THEN EmptyString
    ELSE [text |-> Text(input[p]),
          nl |-> IF p = Len(input) /\ ~finalNL THEN 0 ELSE 1]

\* The file position after readline() at p.
Advance(p) == IF p > Len(input) THEN p ELSE p + 1

\* A logger record: the level, the message, the number of the input line it
\* is about (0: none) and the number the message reports.
LogRec(level, msg, at, arg) ==
    [level |-> level, msg |-> msg, at |-> at, arg |-> arg]

\* A history event: the step taken, where process_file was and the file
\* position when it started, and after the step: the count and first line of
\* the current block and the number of lines in the output.
Event(ev, at, n, st, outlen) ==
    [ev |-> ev, pc |-> pc, at |-> at, n |-> n, start |-> st,
     outlen |-> outlen]

\* A process_file call seen on its own: no directory pass, no other run.
NoCall == <<>>
NoArgs == <<>>
NoPrev == [kind |-> "none"]
NoReformat == <<>>
NoScript == <<>>
NoReader == <<>>

\* None of the other programs is running.
NoOthers ==
    /\ reformat = NoReformat
    /\ script = NoScript
    /\ reader = NoReader

NothingOutside ==
    /\ fs = <<>>
    /\ listing = <<>>
    /\ idx = 0
    /\ args = NoArgs
    /\ call = NoCall
    /\ calls = <<>>
    /\ tasks = <<>>
    /\ NoOthers
    /\ prev = NoPrev

Init ==
    /\ input \in SeqsUpTo(LineIds, MaxLines)
    /\ finalNL \in BOOLEAN
    /\ IsFile(input, finalNL)
    /\ pos = 1
    /\ pc = "scan"
    /\ n_atoms = 0
    /\ meta_values = <<>>
    /\ atom_lines = <<>>
    /\ i = 0
    /\ block_count = 0
    /\ out = <<>>
    /\ log = <<LogRec("info", "Processing file", 0, 0)>>
    /\ start = 0
    /\ hist = <<>>
    /\ NothingOutside

----------------------------------------------------------------------------
(* process_file, one action per readline() and one for the writes *)

\* Line 137: the summary after the while loop.
Finished == LogRec("info", "Finished file", 0, block_count)

\* A slip: return where break is meant, so that line 137 is never reached.
ScanEOF_returns ==
    /\ pc = "scan"
    /\ ReadLine(pos) = EmptyString
    /\ pc' = "done"
    /\ hist' = Append(hist, Event("ScanEOF", pos, n_atoms, start, Len(out)))
    /\ UNCHANGED <<input, finalNL, pos, n_atoms, meta_values, atom_lines, i,
                   block_count, out, log, start>>
    /\ UNCHANGED outer

\* Lines 68-71: readline() returns "" while looking for a count line.
ScanEOF ==
    /\ pc = "scan"
    /\ ReadLine(pos) = EmptyString
    /\ pc' = "done"
    /\ log' = Append(log, Finished)
    /\ hist' = Append(hist, Event("ScanEOF", pos, n_atoms, start, Len(out)))
    /\ UNCHANGED <<input, finalNL, pos, n_atoms, meta_values, atom_lines, i,
                   block_count, out, start>>
    /\ UNCHANGED outer

\* A slip: break where the continue of line 74 is meant.
ScanBlank_break ==
    /\ pc = "scan"
    /\ ReadLine(pos) # EmptyString
    /\ Strip(ReadLine(pos)) = EmptyText
    /\ pos' = Advance(pos)
    /\ pc' = "done"
    /\ log' = Append(log, Finished)
    /\ hist' = Append(hist, Event("ScanBlank", pos, n_atoms, start, Len(out)))
    /\ UNCHANGED <<input, finalNL, n_atoms, meta_values, atom_lines, i,
                   block_count, out, start>>
    /\ UNCHANGED outer

\* A slip: the blank line is put back (fin.seek to where it starts) before
\* the continue of line 75.
ScanBlank_putBack ==
    /\ pc = "scan"
    /\ ReadLine(pos) # EmptyString
    /\ Strip(ReadLine(pos)) = EmptyText
    /\ hist' = Append(hist, Event("ScanBlank", pos, n_atoms, start, Len(out)))
    /\ UNCHANGED <<input, finalNL, pos, pc, n_atoms, meta_values, atom_lines,
                   i, block_count, out, log, start>>
    /\ UNCHANGED outer

\* Lines 72-75: a line that strips to "" is skipped.
ScanBlank ==
    /\ pc = "scan"
    /\ ReadLine(pos) # EmptyString
    /\ Strip(ReadLine(pos)) = EmptyText
    /\ pos' = Advance(pos)
    /\ hist' = Append(hist, Event("ScanBlank", pos, n_atoms, start, Len(out)))
    /\ UNCHANGED <<input, finalNL, pc, n_atoms, meta_values, atom_lines, i,
                   block_count, out, log, start>>
    /\ UNCHANGED outer

\* A slip: break where continue is meant.
ScanMalformed_break ==
    /\ pc = "scan"
    /\ ReadLine(pos) # EmptyString
    /\ Strip(ReadLine(pos)) # EmptyText
    /\ ~IsIntText(Strip(ReadLine(pos)))
    /\ pos' = Advance(pos)
    /\ pc' = "done"
    /\ log' = log \o <<LogRec("warning", "Expected integer atom count", pos, 0),
                       Finished>>
    /\ hist' = Append(hist, Event("ScanMalformed", pos, n_atoms, start, Len(out)))
    /\ UNCHANGED <<input, finalNL, n_atoms, meta_values, atom_lines, i,
                   block_count, out, start>>
    /\ UNCHANGED outer

\* A slip: a count of 0 taken for a line that int() rejects, and the block
\* entered.
ScanMalformed_entersBlock ==
    /\ pc = "scan"
    /\ ReadLine(pos) # EmptyString
    /\ Strip(ReadLine(pos)) # EmptyText
    /\ ~IsIntText(Strip(ReadLine(pos)))
    /\ n_atoms' = 0
    /\ pos' = Advance(pos)
    /\ pc' = "meta"
    /\ start' = pos
    /\ log' = Append(log, LogRec("warning", "Expected integer atom count", pos, 0))
    /\ hist' = Append(hist, Event("ScanMalformed", pos, 0, pos, Len(out)))
    /\ UNCHANGED <<input, finalNL, meta_values, atom_lines, i, block_count,
                   out>>
    /\ UNCHANGED outer

\* Lines 76-81: int(first) raises ValueError.
ScanMalformed ==
    /\ pc = "scan"
    /\ ReadLine(pos) # EmptyString
    /\ Strip(ReadLine(pos)) # EmptyText
    /\ ~IsIntText(Strip(ReadLine(pos)))
    /\ pos' = Advance(pos)
    /\ log' = Append(log, LogRec("warning", "Expected integer atom count", pos, 0))
    /\ hist' = Append(hist, Event("ScanMalformed", pos, n_atoms, start, Len(out)))
    /\ UNCHANGED <<input, finalNL, pc, n_atoms, meta_values, atom_lines, i,
                   block_count, out, start>>
    /\ UNCHANGED outer

\* Lines 76-77: int(first) succeeds.
ScanCount ==
    /\ pc = "scan"
    /\ ReadLine(pos) # EmptyString
    /\ Strip(ReadLine(pos)) # EmptyText
    /\ IsIntText(Strip(ReadLine(pos)))
    /\ n_atoms' = IntOf(Strip(ReadLine(pos)))
    /\ pos' = Advance(pos)
    /\ pc' = "meta"
    /\ start' = pos
    /\ hist' = Append(hist, Event("ScanCount", pos, n_atoms', pos, Len(out)))
    /\ UNCHANGED <<input, finalNL, meta_values, atom_lines, i, block_count,
                   out, log>>
    /\ UNCHANGED outer

\* A slip: the break of line 87 without the warning of line 86.
MetaEOF_silent ==
    /\ pc = "meta"
    /\ ReadLine(pos) = EmptyString
    /\ pc' = "done"
    /\ log' = Append(log, Finished)
    /\ hist' = Append(hist, Event("MetaEOF", pos, n_atoms, start, Len(out)))
    /\ UNCHANGED <<input, finalNL, pos, n_atoms, meta_values, atom_lines, i,
                   block_count, out, start>>
    /\ UNCHANGED outer

\* Lines 84-87: end of file where the metadata line should be.
MetaEOF ==
    /\ pc = "meta"
    /\ ReadLine(pos) = EmptyString
    /\ pc' = "done"
    /\ log' = log \o <<LogRec("warning", "Unexpected EOF when reading metadata", pos, 0),
                       Finished>>
    /\ hist' = Append(hist, Event("MetaEOF", pos, n_atoms, start, Len(out)))
    /\ UNCHANGED <<input, finalNL, pos, n_atoms, meta_values, atom_lines, i,
                   block_count, out, start>>
    /\ UNCHANGED outer

\* A slip: neither the test of line 90 nor a try around the loop; the
\* IndexError of line 100 leaves process_file.
MetaShort_raises ==
    /\ pc = "meta"
    /\ ReadLine(pos) # EmptyString
    /\ ExtractRaises(Split(Strip(ReadLine(pos))))
    /\ pos' = Advance(pos)
    /\ pc' = "raised"
    /\ hist' = Append(hist, Event("MetaShort", pos, n_atoms, start, Len(out)))
    /\ UNCHANGED <<input, finalNL, n_atoms, meta_values, atom_lines, i,
                   block_count, out, log, start>>
    /\ UNCHANGED outer

\* Lines 88-105: too few tokens (or, were the test of line 90 to let such
\* a line through, the IndexError of line 100 caught at line 101); the for
\* loop that skips the atom lines starts.
MetaShort ==
    /\ pc = "meta"
    /\ ReadLine(pos) # EmptyString
    /\ IF MetaTooShort(Split(Strip(ReadLine(pos))))
       THEN TRUE
       ELSE ExtractRaises(Split(Strip(ReadLine(pos))))
    /\ pos' = Advance(pos)
    /\ log' = Append(log,
                IF MetaTooShort(Split(Strip(ReadLine(pos))))
                THEN LogRec("warning", "Metadata has too few tokens", pos,
                            Len(Split(Strip(ReadLine(pos)))))
                ELSE LogRec("error", "Failed to extract metadata indices",
                            pos, 0))
    /\ i' = 0
    /\ pc' = IF 0 < n_atoms THEN "skip" ELSE "scan"
    /\ hist' = Append(hist, Event("MetaShort", pos, n_atoms, start, Len(out)))
    /\ UNCHANGED <<input, finalNL, n_atoms, meta_values, atom_lines,
                   block_count, out, start>>
    /\ UNCHANGED outer

\* A slip: range(n_atoms - 1), one atom line left unread.
SkipAtom_oneShort ==
    /\ pc = "skip"
    /\ i < n_atoms
    /\ pos' = IF i < n_atoms - 1 THEN Advance(pos) ELSE pos
    /\ i' = i + 1
    /\ pc' = IF i + 1 < n_atoms THEN "skip" ELSE "scan"
    /\ hist' = Append(hist, Event("SkipAtom", pos, n_atoms, start, Len(out)))
    /\ UNCHANGED <<input, finalNL, n_atoms, meta_values, atom_lines,
                   block_count, out, log, start>>
    /\ UNCHANGED outer

\* Lines 94-96: one iteration of the skipping loop; its readline() is not
\* tested for end of file.  After the last iteration, continue.
SkipAtom ==
    /\ pc = "skip"
    /\ i < n_atoms
    /\ pos' = Advance(pos)
    /\ i' = i + 1
    /\ pc' = IF i + 1 < n_atoms THEN "skip" ELSE "scan"
    /\ hist' = Append(hist, Event("SkipAtom", pos, n_atoms, start, Len(out)))
    /\ UNCHANGED <<input, finalNL, n_atoms, meta_values, atom_lines,
                   block_count, out, log, start>>
    /\ UNCHANGED outer

\* A slip: atom_lines = [] of line 108 placed before the while loop, so
\* that the list lives on from block to block.
MetaAccept_keepsAtomLines ==
    /\ pc = "meta"
    /\ ReadLine(pos) # EmptyString
    /\ ~MetaTooShort(Split(Strip(ReadLine(pos))))
    /\ ~ExtractRaises(Split(Strip(ReadLine(pos))))
    /\ meta_values' = ExtractMeta(Split(Strip(ReadLine(pos))))
    /\ pos' = Advance(pos)
    /\ i' = 0
    /\ pc' = "atoms"
    /\ hist' = Append(hist, Event("MetaAccept", pos, n_atoms, start, Len(out)))
    /\ UNCHANGED <<input, finalNL, n_atoms, atom_lines, block_count, out, log,
                   start>>
    /\ UNCHANGED outer

\* Lines 88-109: enough tokens; the selected ones are kept and the loop that
\* reads the atom lines starts.
MetaAccept ==
    /\ pc = "meta"
    /\ ReadLine(pos) # EmptyString
    /\ ~MetaTooShort(Split(Strip(ReadLine(pos))))
    /\ ~ExtractRaises(Split(Strip(ReadLine(pos))))
    /\ meta_values' = ExtractMeta(Split(Strip(ReadLine(pos))))
    /\ pos' = Advance(pos)
    /\ atom_lines' = <<>>
    /\ i' = 0
    /\ pc' = "atoms"
    /\ hist' = Append(hist, Event("MetaAccept", pos, n_atoms, start, Len(out)))
    /\ UNCHANGED <<input, finalNL, n_atoms, block_count, out, log, start>>
    /\ UNCHANGED outer

\* Lines 110-116: one atom line read.
ReadAtom ==
    /\ pc = "atoms"
    /\ i < n_atoms
    /\ ReadLine(pos) # EmptyString
    /\ atom_lines' = Append(atom_lines, RstripNL(ReadLine(pos)))
    /\ pos' = Advance(pos)
    /\ i' = i + 1
    /\ hist' = Append(hist, Event("ReadAtom", pos, n_atoms, start, Len(out)))
    /\ UNCHANGED <<input, finalNL, pc, n_atoms, meta_values, block_count,
                   out, log, start>>
    /\ UNCHANGED outer

\* A slip: read_ok not tested, the atom lines read so far are written.
AtomEOF_writesPartial ==
    /\ pc = "atoms"
    /\ i < n_atoms
    /\ ReadLine(pos) = EmptyString
    /\ pc' = "done"
    /\ out' = out \o BlockOutput(n_atoms, meta_values, atom_lines)
    /\ block_count' = block_count + 1
    /\ log' = log \o <<LogRec("warning", "Unexpected EOF while reading atom lines",
                               pos, n_atoms),
                       LogRec("info", "Finished file", 0, block_count')>>
    /\ hist' = Append(hist, Event("AtomEOF", pos, n_atoms, start, Len(out')))
    /\ UNCHANGED <<input, finalNL, pos, n_atoms, meta_values, atom_lines, i,
                   start>>
    /\ UNCHANGED outer

\* Lines 112-119: end of file inside the atom lines.
AtomEOF ==
    /\ pc = "atoms"
    /\ i < n_atoms
    /\ ReadLine(pos) = EmptyString
    /\ pc' = "done"
    /\ log' = log \o <<LogRec("warning", "Unexpected EOF while reading atom lines",
                               pos, n_atoms),
                       Finished>>
    /\ hist' = Append(hist, Event("AtomEOF", pos, n_atoms, start, Len(out)))
    /\ UNCHANGED <<input, finalNL, pos, n_atoms, meta_values, atom_lines, i,
                   block_count, out, start>>
    /\ UNCHANGED outer

\* Lines 121-135: range(n_atoms) is exhausted; the block is written.
Emit ==
    /\ pc = "atoms"
    /\ i >= n_atoms
    /\ out' = out \o BlockOutput(n_atoms, meta_values, atom_lines)
    /\ block_count' = block_count + 1
    /\ pc' = "scan"
    /\ hist' = Append(hist, Event("Emit", pos, n_atoms, start, Len(out')))
    /\ UNCHANGED <<input, finalNL, pos, n_atoms, meta_values, atom_lines, i,
                   log, start>>
    /\ UNCHANGED outer

Next ==
    \/ ScanEOF
    \/ ScanBlank
    \/ ScanMalformed
    \/ ScanCount
    \/ MetaEOF
    \/ MetaShort
    \/ SkipAtom
    \/ MetaAccept
    \/ ReadAtom
    \/ AtomEOF
    \/ Emit

Spec == Init /\ [][Next]_vars

TypeOK ==
    /\ pos \in 1..(Len(input) + 1)
    /\ pc \in {"scan", "meta", "skip", "atoms", "done"}
    /\ block_count \in 0..Len(input)

----------------------------------------------------------------------------
(* Vocabulary of the properties *)

\* A text that is one integer literal, blanks around it allowed.
IsCountLine(t) == Len(t.toks) = 1 /\ t.toks[1] = IntTok(t.toks[1].v)

\* The lines of the output that are headers: they end with the marker.
HeaderLines ==
    {h \in DOMAIN out :
        /\ out[h].text.toks # <<>>
        /\ out[h].text.toks[Len(out[h].text.toks)] = MARKER}

\* The steps that wrote a block.
Emits == {k \in DOMAIN hist : hist[k].ev = "Emit"}

\* The number of output lines before step k.
OutBefore(k) == IF k = 1 THEN 0 ELSE hist[k - 1].outlen

\* The output lines written by step k.
WrittenBy(k) == SubSeq(out, OutBefore(k) + 1, hist[k].outlen)

\* Where process_file is, and its file position, after step k.
PcAfter(k) == IF k = Len(hist) THEN pc ELSE hist[k + 1].pc
PosAfter(k) == IF k = Len(hist) THEN pos ELSE hist[k + 1].at

\* Step k read line hist[k].at of the input (it did not meet the end).
ReadsLine(k) == hist[k].at <= Len(input)

\* The tokens of the line step k read.
TokensRead(k) == Text(input[hist[k].at]).toks

\* A valid block starts at line s: a count line n >= 0, a metadata line of at
\* least 35 tokens and n further lines.
ValidBlockAt(s) ==
    /\ s + 1 <= Len(input)
    /\ IsCountLine(Text(input[s]))
    /\ Text(input[s]).toks[1].v >= 0
    /\ s + 1 + Text(input[s]).toks[1].v <= Len(input)
    /\ Len(Text(input[s + 1]).toks) >= 35

\* The block whose count line is line s has been written, count line, header
\* and n atom lines.
WrittenFrom(s, n) ==
    \E e \in Emits :
        /\ hist[e].start = s
        /\ hist[e].outlen - OutBefore(e) = 2 + n

\* The number of blocks from line p to the end of the input when these
\* lines are well-formed blocks only (a count line n, a metadata line of at
\* least 35 tokens, n further lines), and -1 when they are not.
RECURSIVE WellFormedBlocks(_)
WellFormedBlocks(p) ==
    IF p > Len(input) THEN 0
    ELSE IF /\ IsCountLine(Text(input[p]))
            /\ Text(input[p]).toks[1].v >= 0
            /\ p + 1 + Text(input[p]).toks[1].v <= Len(input)
            /\ Len(Text(input[p + 1]).toks) >= 35
         THEN LET rest == WellFormedBlocks(p + 2 + Text(input[p]).toks[1].v)
              IN  IF rest < 0 THEN -1 ELSE rest + 1
         ELSE -1

----------------------------------------------------------------------------
(* The claims *)

\* C1: when the input consists of well-formed blocks only, the finished run
\* has written as many blocks (header lines) as the input holds.
C1_BlockCountPreserved ==
    (pc = "done" /\ WellFormedBlocks(1) >= 0)
        => Cardinality(HeaderLines) = WellFormedBlocks(1)

\* A finished run on an input of two well-formed blocks.
C1_Witness ==
    /\ pc = "done"
    /\ WellFormedBlocks(1) = 2
    /\ Cardinality(HeaderLines) = 2

\* The number of lines between header h and the next block's count line (or
\* the end of the output).
AtomLinesAfter(h) ==
    LET later == {g \in HeaderLines : g > h}
    IN  IF later = {} THEN Len(out) - h
        ELSE (CHOOSE g \in later : \A g2 \in later : g <= g2) - 2 - h

\* C2: every block in the output has exactly n atom lines after its header,
\* n being the integer on the block's count line, whatever integer that is.
C2_ExactlyNAtomLines ==
    \A h \in HeaderLines :
        /\ h > 1
        /\ IsCountLine(out[h - 1].text)
        /\ AtomLinesAfter(h) = out[h - 1].text.toks[1].v

\* C3: the atom lines of every written block are the lines that follow the
\* block's metadata line in the input, unchanged, in order, each ended by one
\* newline; and blocks are written in the order of their count lines.
C3_AtomLinesVerbatimInOrder ==
    /\ \A k \in Emits :
          SubSeq(out, OutBefore(k) + 3, hist[k].outlen)
            = [j \in 1..hist[k].n |->
                 [text |-> Text(input[hist[k].start + 1 + j]), nl |-> 1]]
    /\ \A k \in Emits :
          /\ IsCountLine(Text(input[hist[k].start]))
          /\ out[OutBefore(k) + 1]
               = [text |-> [lead |-> FALSE,
                            toks |-> <<Text(input[hist[k].start]).toks[1]>>,
                            trail |-> FALSE],
                  nl |-> 1]
    /\ \A k1, k2 \in Emits : k1 < k2 => hist[k1].start < hist[k2].start

\* Two blocks written, one of them with an atom line that ends with a blank.
C3_Witness ==
    /\ pc = "done"
    /\ Cardinality(Emits) = 2
    /\ \E k \in Emits :
          /\ hist[k].n = 1
          /\ Text(input[hist[k].start + 2]).trail

\* Step k looked for a count line and read a non-blank line that is not an
\* integer.
MalformedCountRead(k) ==
    /\ hist[k].pc = "scan"
    /\ ReadsLine(k)
    /\ TokensRead(k) # <<>>
    /\ ~IsCountLine(Text(input[hist[k].at]))

\* C4: a non-blank line that is no integer, read where a count line is
\* looked for, is logged with a warning and writes nothing; the run goes on
\* looking for a count line at the next line, and a valid block that starts
\* there is written by the time the run ends.
C4_MalformedCountSkipped ==
    \A k \in DOMAIN hist :
        MalformedCountRead(k) =>
            /\ \E r \in DOMAIN log :
                  log[r] = LogRec("warning", "Expected integer atom count",
                                  hist[k].at, 0)
            /\ hist[k].outlen = OutBefore(k)
            /\ PcAfter(k) = "scan"
            /\ PosAfter(k) = hist[k].at + 1
            /\ (pc = "done" /\ ValidBlockAt(hist[k].at + 1))
                  => WrittenFrom(hist[k].at + 1,
                                 Text(input[hist[k].at + 1]).toks[1].v)

\* A malformed count line was read, the valid block after it (with an atom
\* line) is in the output.
C4_Witness ==
    /\ pc = "done"
    /\ \E k \in DOMAIN hist :
          /\ MalformedCountRead(k)
          /\ ValidBlockAt(hist[k].at + 1)
          /\ WrittenFrom(hist[k].at + 1, 1)

\* Step k read, as the metadata line of a block of count n, a line with too
\* few tokens, and n lines follow it in the input.
ShortMetaRead(k) ==
    /\ hist[k].pc = "meta"
    /\ ReadsLine(k)
    /\ Len(TokensRead(k)) < 35
    /\ hist[k].n >= 0
    /\ hist[k].at + hist[k].n <= Len(input)

\* C5: for a block whose metadata line has too few tokens nothing is
\* written; the n lines after the metadata line are consumed, by n steps that
\* look at none of them, and the search for a count line resumes at the line
\* after them, so that a valid block that starts there is written by the time
\* the run ends.
C5_ShortMetaBlockSkipped ==
    \A k \in DOMAIN hist :
        ShortMetaRead(k) =>
            /\ \A j \in (k - 1)..(k + hist[k].n) :
                  j \in DOMAIN hist => hist[j].outlen = OutBefore(j)
            /\ \A j \in (k + 1)..(k + hist[k].n) :
                  j \in DOMAIN hist =>
                      /\ hist[j].pc = "skip"
                      /\ hist[j].at = hist[k].at + (j - k)
            /\ k + hist[k].n <= Len(hist) =>
                  /\ PcAfter(k + hist[k].n) = "scan"
                  /\ PosAfter(k + hist[k].n) = hist[k].at + hist[k].n + 1
            /\ ~ \E e \in Emits : hist[e].start = hist[k].start
            /\ (pc = "done" /\ ValidBlockAt(hist[k].at + hist[k].n + 1))
                  => WrittenFrom(hist[k].at + hist[k].n + 1,
                                 Text(input[hist[k].at + hist[k].n + 1]).toks[1].v)

\* A block of count 1 with a short metadata line was skipped and the valid
\* block after its atom line is in the output.
C5_Witness ==
    /\ pc = "done"
    /\ \E k \in DOMAIN hist :
          /\ ShortMetaRead(k)
          /\ hist[k].n = 1
          /\ ValidBlockAt(hist[k].at + 2)
          /\ WrittenFrom(hist[k].at + 2, 0)

\* C6: a metadata line of exactly 34 tokens makes the block skipped with a
\* warning, nothing written and the run going on; a metadata line of exactly
\* 35 tokens is accepted without a log record, and the block is written by
\* the time the run ends if the input holds its atom lines.
C6_ThresholdExact ==
    \A k \in DOMAIN hist :
        (hist[k].pc = "meta" /\ ReadsLine(k)) =>
            /\ Len(TokensRead(k)) = 34 =>
                  /\ \E r \in DOMAIN log :
                        log[r] = LogRec("warning", "Metadata has too few tokens",
                                        hist[k].at, 34)
                  /\ hist[k].outlen = OutBefore(k)
                  /\ PcAfter(k) \in {"skip", "scan"}
                  /\ ~ \E e \in Emits : hist[e].start = hist[k].start
            /\ Len(TokensRead(k)) = 35 =>
                  /\ PcAfter(k) = "atoms"
                  /\ ~ \E r \in DOMAIN log : log[r].at = hist[k].at
                  /\ (pc = "done" /\ hist[k].at + hist[k].n <= Len(input))
                        => \E e \in Emits : hist[e].start = hist[k].start

\* One run that skipped a block with 34 metadata tokens and wrote one with 35.
C6_Witness ==
    /\ pc = "done"
    /\ \E k1, k2 \in DOMAIN hist :
          /\ hist[k1].pc = "meta" /\ ReadsLine(k1) /\ Len(TokensRead(k1)) = 34
          /\ hist[k2].pc = "meta" /\ ReadsLine(k2) /\ Len(TokensRead(k2)) = 35
          /\ \E e \in Emits : hist[e].start = hist[k2].start

\* Step k met the end of the input where it wanted the metadata line, or one
\* of the n atom lines, of the block whose count line it had read.
EndInsideBlock(k) ==
    /\ ~ReadsLine(k)
    /\ \/ hist[k].pc = "meta"
       \/ /\ hist[k].pc = "atoms"
          /\ hist[k].at - hist[k].start - 2 < hist[k].n

\* C7: when the input ends inside a block the run stops there; no line of
\* that block is in the output, which holds the blocks written before the
\* block began and nothing else.
C7_TruncatedBlockDiscarded ==
    \A k \in DOMAIN hist :
        EndInsideBlock(k) =>
            /\ k = Len(hist)
            /\ pc = "done"
            /\ Len(out) = OutBefore(k)
            /\ \A j \in 1..k :
                  hist[j].outlen # OutBefore(j) =>
                      /\ j \in Emits
                      /\ hist[j].at <= hist[k].start
                      /\ hist[j].start < hist[k].start
                      /\ WrittenBy(j)[1]
                           = [text |-> [lead |-> FALSE,
                                        toks |-> <<IntTok(hist[j].n)>>,
                                        trail |-> FALSE],
                              nl |-> 1]

\* The input ended after the first of two atom lines of a block, and a block
\* had been written before.
C7_Witness ==
    /\ Emits # {}
    /\ \E k \in DOMAIN hist :
          /\ EndInsideBlock(k)
          /\ hist[k].pc = "atoms"
          /\ hist[k].at - hist[k].start - 2 = 1

\* The input has no final newline and ends with the last of the n >= 1 atom
\* lines of the block whose metadata line step k accepted.
EndsAfterLastAtomLine(k) ==
    /\ ~finalNL
    /\ hist[k].pc = "meta"
    /\ ReadsLine(k)
    /\ Len(TokensRead(k)) >= 35
    /\ hist[k].n >= 1
    /\ hist[k].at + hist[k].n = Len(input)

\* C8: a final block whose last atom line ends the input without a newline
\* is written, with its n atom lines, the last one whole and ended by a
\* newline.
C8_UnterminatedFinalBlockEmitted ==
    \A k \in DOMAIN hist :
        (pc = "done" /\ EndsAfterLastAtomLine(k)) =>
            \E e \in Emits :
                /\ hist[e].start = hist[k].start
                /\ hist[e].outlen = Len(out)
                /\ Len(WrittenBy(e)) = 2 + hist[k].n
                /\ \A j \in 1..hist[k].n :
                      out[OutBefore(e) + 2 + j]
                        = [text |-> Text(input[hist[k].at + j]), nl |-> 1]

\* Such a final block of two atom lines, the last one ending with a blank.
C8_Witness ==
    /\ pc = "done"
    /\ input # <<>>
    /\ Text(input[Len(input)]).trail
    /\ \E k \in DOMAIN hist :
          /\ EndsAfterLastAtomLine(k)
          /\ hist[k].n = 2
          /\ WrittenFrom(hist[k].start, 2)

\* The labels of the header, each with the 0-based position of the metadata
\* token written behind it.
C9_Fields ==
    << <<"CCSD(T)/CBS=", 16>>, <<"CCSD(T)/haTZ=", 18>>, <<"MP2/haTZ=", 20>>,
       <<"MP2/CBS=", 22>>, <<"MP2/aTZ=", 24>>, <<"MP2/aQZ=", 26>>,
       <<"HF/haTZ=", 28>>, <<"HF/aTZ=", 30>>, <<"HF/aQZ=", 32>>,
       <<"SAPT2+/aDZTot=", 34>> >>

\* C9: the header of every written block is made of the ten labels, each
\* followed by the metadata token at its position 16, 18, ..., 34, and then
\* the marker Properties=species:S:1:pos:R:3, and of nothing else.
C9_HeaderContent ==
    \A e \in Emits :
        LET meta == Text(input[hist[e].start + 1]).toks
        IN  out[OutBefore(e) + 2]
              = [text |->
                   [lead |-> FALSE,
                    toks |-> [f \in 1..10 |->
                                [pre |-> C9_Fields[f][1],
                                 body |-> meta[C9_Fields[f][2] + 1].body,
                                 v |-> meta[C9_Fields[f][2] + 1].v]]
                             \o <<[pre |-> "Properties=species:S:1:pos:R:3",
                                   body |-> "none", v |-> 0]>>,
                    trail |-> FALSE],
                 nl |-> 1]

\* A block is written whose header starts with the label CCSD(T)/CBS= and
\* the seventeenth metadata token.
C9_Witness ==
    \E e \in Emits :
        out[OutBefore(e) + 2].text.toks[1]
          = [pre |-> "CCSD(T)/CBS=", body |-> "word", v |-> 16]

\* The lines of the block with header h, as its count line announces them.
AnnouncedLines(h) == 2 + out[h - 1].text.toks[1].v

\* The sum of AnnouncedLines over the headers in S.
RECURSIVE AnnouncedTotal(_)
AnnouncedTotal(S) ==
    IF S = {} THEN 0
    ELSE LET h == CHOOSE g \in S : TRUE
         IN  AnnouncedLines(h) + AnnouncedTotal(S \ {h})

\* C10: block_count is at every step the number of headers in the output,
\* the output has 2 + n lines for each block written, n being the count on
\* the block's count line, and the count reported at the end is the number
\* of blocks written.
C10_BlockCountAndLines ==
    /\ block_count = Cardinality(HeaderLines)
    /\ Len(out) = AnnouncedTotal(HeaderLines)
    /\ pc = "done" =>
          log[Len(log)] = LogRec("info", "Finished file", 0,
                                 Cardinality(HeaderLines))

----------------------------------------------------------------------------
\* C11: an empty input file makes process_file leave an empty output file
\* and report 0 blocks written.
C11_EmptyInput ==
    (input = <<>> /\ pc = "done") =>
        /\ out = <<>>
        /\ block_count = 0
        /\ log[Len(log)] = LogRec("info", "Finished file", 0, 0)

C11_Witness ==
    /\ input = <<>>
    /\ pc = "done"
    /\ hist # <<>>
    /\ hist[Len(hist)].ev = "ScanEOF"

----------------------------------------------------------------------------
(* File names and make_output_name *)

\* A file name is a string, written as the sequence of its pieces: a letter,
\* the dot, or the string "_reformat" (no other piece starts with "_", so
\* two sequences are the same string only if they are the same sequence).
REFORMAT == "_reformat"
NameChars == {"a", ".", REFORMAT}

\* Longest file name, in pieces, that InitNames draws.
MaxNameLen == 3

\* The names a directory entry can have: not empty, not "." and not "..".
Names ==
    {n \in SeqsUpTo(NameChars, MaxNameLen) : n \notin {<<>>, <<".">>, <<".", ".">>}}

\* A path is a directory and a name in it: Path(dir) / name.
PathOf(dir, name) == [dir |-> dir, name |-> name]

\* The positions of the dots of a name.
Dots(name) == {k \in DOMAIN name : name[k] = "."}

\* name.rfind('.') + 1: the position of the last dot, 0 if there is none.
RFindDot(name) ==
    IF Dots(name) = {} THEN 0
    ELSE CHOOSE k \in Dots(name) : \A j \in Dots(name) : j <= k

\* PurePath.suffix: the last dot and what follows it, unless that dot starts
\* or ends the name.
Suffix(name) ==
    IF 1 < RFindDot(name) /\ RFindDot(name) < Len(name)
    THEN SubSeq(name, RFindDot(name), Len(name))
    ELSE <<>>

\* PurePath.stem: the name without its suffix.
Stem(name) ==
    IF 1 < RFindDot(name) /\ RFindDot(name) < Len(name)
    THEN SubSeq(name, 1, RFindDot(name) - 1)
    ELSE name

\* name.split('.')
RECURSIVE SplitDot(_)
SplitDot(name) ==
    IF Dots(name) = {} THEN <<name>>
    ELSE LET k == CHOOSE d \in Dots(name) : \A j \in Dots(name) : d <= j
         IN  <<SubSeq(name, 1, k - 1)>>
             \o SplitDot(SubSeq(name, k + 1, Len(name)))

\* '.'.join(parts)
RECURSIVE JoinDot(_)
JoinDot(parts) ==
    IF parts = <<>> THEN <<>>
    ELSE IF Len(parts) = 1 THEN parts[1]
    ELSE parts[1] \o <<".">> \o JoinDot(Tail(parts))

\* A slip: the input name returned as it is.
OutName_same(name) == name

\* Lines 35-45: out_name.
OutName(name) ==
    LET parts == SplitDot(name)
    IN  IF Len(parts) >= 3
        THEN LET pre == JoinDot(SubSeq(parts, 1, Len(parts) - 2))
                 mid == parts[Len(parts) - 1]
                 suf == parts[Len(parts)]
             IN  pre \o <<".">> \o mid \o <<REFORMAT>> \o <<".">> \o suf
        ELSE Stem(name) \o <<REFORMAT>> \o Suffix(name)

\* in_path.with_name(out_name): the sibling of in_path of that name.
make_output_name(in_path) == PathOf(in_path.dir, OutName(in_path.name))

\* No process_file call is under way.
NoRun ==
    /\ input = <<>>
    /\ finalNL = TRUE
    /\ pos = 1
    /\ pc = "idle"
    /\ n_atoms = 0
    /\ meta_values = <<>>
    /\ atom_lines = <<>>
    /\ i = 0
    /\ block_count = 0
    /\ out = <<>>
    /\ log = <<>>
    /\ start = 0
    /\ hist = <<>>

locals == <<input, finalNL, pos, pc, n_atoms, meta_values, atom_lines, i,
            block_count, out, start, hist>>
run == <<locals, log>>

\* make_output_name applied, one after the other, to two files of a
\* directory "d": listing holds their names, calls what was derived.
InitNames ==
    /\ NoRun
    /\ listing \in [1..2 -> Names]
    /\ idx = 1
    /\ calls = <<>>
    /\ fs = <<>>
    /\ args = NoArgs
    /\ call = NoCall
    /\ tasks = <<>>
    /\ NoOthers
    /\ prev = NoPrev

\* Line 57: out_path = make_output_name(file_path).
DeriveOutPath ==
    /\ idx <= Len(listing)
    /\ calls' = Append(calls,
                  [file_path |-> PathOf("d", listing[idx]),
                   out_path |-> make_output_name(PathOf("d", listing[idx]))])
    /\ idx' = idx + 1
    /\ UNCHANGED <<run, fs, listing, args, call, tasks, prev, others>>

SpecNames == InitNames /\ [][DeriveOutPath]_vars

\* The dot-separated segments of the input and of the output name of call k.
InSegs(k) == SplitDot(calls[k].file_path.name)
OutSegs(k) == SplitDot(calls[k].out_path.name)

\* C12: make_output_name is collision-free and deterministic: two calls give
\* the same output path exactly if they were given the same input path.
C12_CollisionFree ==
    \A j, k \in DOMAIN calls :
        (calls[j].file_path = calls[k].file_path)
            <=> (calls[j].out_path = calls[k].out_path)

\* The segment that holds the end of the base name: the second-to-last of
\* three or more segments; of two, the first, or the second if the name
\* starts with its only dot (such a name has no extension); else the only one.
BaseSegment(segs) ==
    IF Len(segs) >= 3 THEN Len(segs) - 1
    ELSE IF Len(segs) = 2 /\ segs[1] = <<>> THEN 2
    ELSE 1

\* C13: the output name has the segments of the input name, in place, with
\* _reformat appended to the second-to-last one if there are three or more,
\* and to the base name before the extension otherwise.
C13_SuffixPlacement ==
    \A k \in DOMAIN calls :
        /\ Len(OutSegs(k)) = Len(InSegs(k))
        /\ \A j \in DOMAIN InSegs(k) :
              OutSegs(k)[j] = IF j = BaseSegment(InSegs(k))
                              THEN InSegs(k)[j] \o <<REFORMAT>>
                              ELSE InSegs(k)[j]

----------------------------------------------------------------------------
(* The file system and process_directory *)

\* A node of the file system: a regular file with its lines, or a directory.
FileNode(lines, nl) == [kind |-> "file", lines |-> lines, nl |-> nl]
DirNode == [kind |-> "dir", lines |-> <<>>, nl |-> TRUE]

\* fpath.is_file()
is_file(path) == path \in DOMAIN fs /\ fs[path].kind = "file"

\* The name of the line of that text.
NameOfText(t) == CHOOSE id \in LineNames : TextTable[id] = t

\* The file that the writes of out make, read back as lines.
AsFile(written) ==
    FileNode([k \in 1..Len(written) |-> NameOfText(written[k].text)], TRUE)

\* The file system after f has been opened for writing at path: created or
\* truncated.
OpenedForWriting(f, path) ==
    [q \in DOMAIN f \cup {path} |-> IF q = path THEN FileNode(<<>>, TRUE) ELSE f[q]]

\* Path(__file__).name
script_name == <<"s", ".", "t">>

\* fname.endswith(p)
EndsWith(fname, p) ==
    /\ Len(p) <= Len(fname)
    /\ SubSeq(fname, Len(fname) - Len(p) + 1, Len(fname)) = p

\* p in fname
Contains(fname, p) ==
    \E k \in 0..(Len(fname) - Len(p)) : SubSeq(fname, k + 1, k + Len(p)) = p

\* if patterns: neither None nor an empty list.
Truthy(patterns) == ~patterns.none /\ patterns.list # <<>>

\* A slip: only the suffix test of line 156.
Matches_endswithOnly(fname, patterns) ==
    \E j \in DOMAIN patterns.list : EndsWith(fname, patterns.list[j])

\* Line 156: any((fname.endswith(p) or p in fname) for p in patterns)
Matches(fname, patterns) ==
    \E j \in DOMAIN patterns.list :
        EndsWith(fname, patterns.list[j]) \/ Contains(fname, patterns.list[j])

\* The order of str on the pieces of a name, by their first character.
PieceRank(c) ==
    CASE c = "." -> 46
      [] c = REFORMAT -> 95
      [] c = "a" -> 97
      [] c = "s" -> 115
      [] c = "t" -> 116

\* fname1 < fname2 as Python compares strings.
RECURSIVE NameLess(_, _)
NameLess(x, y) ==
    IF y = <<>> THEN FALSE
    ELSE IF x = <<>> THEN TRUE
    ELSE IF Head(x) = Head(y) THEN NameLess(Tail(x), Tail(y))
    ELSE PieceRank(Head(x)) < PieceRank(Head(y))

\* sorted(names)
sorted(S) ==
    CHOOSE s \in [1..Cardinality(S) -> S] :
        \A j, k \in 1..Cardinality(S) : j < k => NameLess(s[j], s[k])

\* Lines 55-59: where process_file writes.
OutPath(file_path, out_dir) ==
    LET dir == IF out_dir = "None" THEN file_path.dir ELSE out_dir
        out_path == make_output_name(file_path)
    IN  IF dir # file_path.dir THEN PathOf(dir, out_path.name) ELSE out_path

\* The entry process_directory is looking at, and its path.
fname == listing[idx]
fpath == PathOf(args.target_dir, fname)

\* Lines 151-157: the entry is passed on to process_file.
Selected ==
    /\ is_file(fpath)
    /\ fname # script_name
    /\ Truthy(args.patterns) => Matches(fname, args.patterns)

ProcessingRec == LogRec("info", "Processing file", 0, 0)
FatalRec == LogRec("error", "Fatal error while processing file", 0, 0)

\* A process_file call in the history: its paths, the entry it was made for,
\* how it ended, the node at file_path before and after it and the number of
\* its last log record.
CallRec(file_path, out_path, status, before, after, log_to) ==
    [file_path |-> file_path, out_path |-> out_path, entry |-> idx,
     status |-> status, before |-> before, after |-> after, log_to |-> log_to]

\* The files and the arguments of the passes that InitDir draws.
DirNames == {<<"a">>, <<"a", ".", "t">>, <<"a", REFORMAT, ".", "t">>, script_name}
DirContents ==
    {<<"1", "m35", "e">>, <<"1", "m34", "e">>, <<"e", "m34", "1">>, <<"1", "m35">>}
DirNodes == {FileNode(c, TRUE) : c \in DirContents} \cup {DirNode}
PatternLists ==
    {[none |-> TRUE, list |-> <<>>], [none |-> FALSE, list |-> <<>>],
     [none |-> FALSE, list |-> <<<<".", "t">>>>],
     [none |-> FALSE, list |-> <<<<"a">>>>]}
OutDirs == {"None", "d", "o"}

\* Most entries of the target directory.
MaxEntries == 2

\* process_directory is called on a directory "d" of at most MaxEntries
\* entries; line 149 has listed it.
InitDir ==
    /\ NoRun
    /\ \E S \in SUBSET DirNames :
          /\ Cardinality(S) <= MaxEntries
          /\ listing = sorted(S)
          /\ \E nodes \in [S -> DirNodes] :
                fs = [q \in {PathOf("d", n) : n \in S} |-> nodes[q.name]]
    /\ idx = 1
    /\ \E ps \in PatternLists, od \in OutDirs :
          args = [target_dir |-> "d", patterns |-> ps, out_dir |-> od]
    /\ call = NoCall
    /\ calls = <<>>
    /\ tasks = <<>>
    /\ NoOthers
    /\ prev = NoPrev

\* Lines 151-152: not a regular file.
SkipNotFile ==
    /\ pc = "idle"
    /\ tasks = <<>>
    /\ idx <= Len(listing)
    /\ ~is_file(fpath)
    /\ idx' = idx + 1
    /\ UNCHANGED <<run, fs, listing, args, call, calls, tasks, prev, others>>

\* Lines 153-154: the script itself.
SkipScript ==
    /\ pc = "idle"
    /\ tasks = <<>>
    /\ idx <= Len(listing)
    /\ is_file(fpath)
    /\ fname = script_name
    /\ idx' = idx + 1
    /\ UNCHANGED <<run, fs, listing, args, call, calls, tasks, prev, others>>

\* Lines 155-157: no pattern matches.
SkipFiltered ==
    /\ pc = "idle"
    /\ tasks = <<>>
    /\ idx <= Len(listing)
    /\ is_file(fpath)
    /\ fname # script_name
    /\ Truthy(args.patterns)
    /\ ~Matches(fname, args.patterns)
    /\ idx' = idx + 1
    /\ UNCHANGED <<run, fs, listing, args, call, calls, tasks, prev, others>>

\* The locals of process_file when its while loop starts on the file node.
Started(node) ==
    /\ input' = node.lines
    /\ finalNL' = node.nl
    /\ pos' = 1
    /\ pc' = "scan"
    /\ n_atoms' = 0
    /\ meta_values' = <<>>
    /\ atom_lines' = <<>>
    /\ i' = 0
    /\ block_count' = 0
    /\ out' = <<>>
    /\ start' = 0
    /\ hist' = <<>>

\* The locals of process_file are gone when it returns.
Returned ==
    /\ input' = <<>>
    /\ finalNL' = TRUE
    /\ pos' = 1
    /\ pc' = "idle"
    /\ n_atoms' = 0
    /\ meta_values' = <<>>
    /\ atom_lines' = <<>>
    /\ i' = 0
    /\ block_count' = 0
    /\ out' = <<>>
    /\ start' = 0
    /\ hist' = <<>>

\* Lines 158, 54-65: process_file(fpath, out_dir) is called and opens both
\* files; the output file is created, or truncated, before anything is read.
CallProcessFile ==
    /\ pc = "idle"
    /\ tasks = <<>>
    /\ idx <= Len(listing)
    /\ Selected
    /\ LET out_path == OutPath(fpath, args.out_dir)
       IN  /\ ~(out_path \in DOMAIN fs /\ fs[out_path].kind = "dir")
           /\ fs' = OpenedForWriting(fs, out_path)
           /\ Started(fs'[fpath])
           /\ call' = [file_path |-> fpath, out_path |-> out_path]
           /\ calls' = Append(calls, CallRec(fpath, out_path, "running",
                                             fs[fpath], fs'[fpath], 0))
    /\ log' = Append(log, ProcessingRec)
    /\ UNCHANGED <<listing, idx, args, tasks, prev, others>>

\* A slip: no try around the with statement; the exception ends the pass.
OpenFails_propagates ==
    /\ pc = "idle"
    /\ tasks = <<>>
    /\ idx <= Len(listing)
    /\ Selected
    /\ log' = Append(log, ProcessingRec)
    /\ calls' = Append(calls, CallRec(fpath, OutPath(fpath, args.out_dir),
                                      "failed", fs[fpath], fs[fpath],
                                      Len(log')))
    /\ idx' = Len(listing) + 1
    /\ UNCHANGED <<locals, fs, listing, args, call, tasks, prev, others>>

\* Lines 62-63, 138-139: one of the two open() calls raises (it must, if
\* out_path is a directory); the exception is logged and process_file
\* returns.
OpenFails ==
    /\ pc = "idle"
    /\ tasks = <<>>
    /\ idx <= Len(listing)
    /\ Selected
    /\ log' = log \o <<ProcessingRec, FatalRec>>
    /\ calls' = Append(calls, CallRec(fpath, OutPath(fpath, args.out_dir),
                                      "failed", fs[fpath], fs[fpath],
                                      Len(log')))
    /\ idx' = idx + 1
    /\ UNCHANGED <<locals, fs, listing, args, call, tasks, prev, others>>

\* Lines 66-139: a readline() or a write() raises; the with statement closes
\* both files, what was written stays in the output file, the exception is
\* logged and process_file returns.
BodyFails ==
    /\ pc \in {"scan", "meta", "skip", "atoms"}
    /\ tasks = <<>>
    /\ call # NoCall
    /\ fs' = [fs EXCEPT ![call.out_path] = AsFile(out)]
    /\ log' = Append(log, FatalRec)
    /\ calls' = [calls EXCEPT ![Len(calls)].status = "failed",
                              ![Len(calls)].after = fs'[call.file_path],
                              ![Len(calls)].log_to = Len(log')]
    /\ call' = NoCall
    /\ idx' = idx + 1
    /\ Returned
    /\ UNCHANGED <<listing, args, tasks, prev, others>>

\* Lines 137, 63, 158: the with statement closes both files and
\* process_file returns to the loop of process_directory.
ReturnToLoop ==
    /\ pc = "done"
    /\ tasks = <<>>
    /\ call # NoCall
    /\ fs' = [fs EXCEPT ![call.out_path] = AsFile(out)]
    /\ calls' = [calls EXCEPT ![Len(calls)].status = "returned",
                              ![Len(calls)].after = fs'[call.file_path],
                              ![Len(calls)].log_to = Len(log)]
    /\ call' = NoCall
    /\ idx' = idx + 1
    /\ Returned
    /\ UNCHANGED <<listing, args, tasks, prev, log, others>>

NextDir ==
    \/ SkipNotFile
    \/ SkipScript
    \/ SkipFiltered
    \/ CallProcessFile
    \/ OpenFails
    \/ BodyFails
    \/ ReturnToLoop
    \/ Next

SpecDir == InitDir /\ [][NextDir]_vars

\* C14: process_file does not touch its input: in every call the path opened
\* for writing differs from the path read, and the node at the input path is
\* the same after the call (and while it runs) as before it.
C14_InputNotMutated ==
    \A k \in DOMAIN calls :
        /\ calls[k].out_path # calls[k].file_path
        /\ calls[k].after = calls[k].before
        /\ calls[k].status = "running" =>
              fs[calls[k].file_path] = calls[k].before

C14_Witness ==
    /\ args.out_dir = "None"
    /\ \E k \in DOMAIN calls :
          /\ calls[k].status = "returned"
          /\ calls[k].before.lines # <<>>
          /\ fs[calls[k].out_path].lines # <<>>

\* Entry j of the listing is a regular file, is not named like the script
\* and matches the filter, if one is given: some pattern is a part of it.
Qualifies(j) ==
    LET entry == PathOf(args.target_dir, listing[j])
    IN  /\ entry \in DOMAIN fs
        /\ fs[entry].kind = "file"
        /\ listing[j] # script_name
        /\ \/ args.patterns.none
           \/ args.patterns.list = <<>>
           \/ \E p \in DOMAIN args.patterns.list :
                 \E a, b \in 0..Len(listing[j]) :
                     SubSeq(listing[j], a + 1, b) = args.patterns.list[p]

\* The process_file calls made for entry j.
CallsFor(j) ==
    {k \in DOMAIN calls :
        /\ calls[k].entry = j
        /\ calls[k].file_path = PathOf(args.target_dir, listing[j])}

\* The loop of process_directory has dealt with entry j, or is doing so.
Reached(j) == j < idx \/ (j = idx /\ pc # "idle")

\* C15: process_directory calls process_file exactly once for every entry
\* it has reached that qualifies, never for another entry, and every call is
\* for an entry of the listing.
C15_CallsExactlyTheSelected ==
    /\ \A j \in DOMAIN listing :
          Cardinality(CallsFor(j)) = IF Reached(j) /\ Qualifies(j) THEN 1 ELSE 0
    /\ \A k \in DOMAIN calls : k \in CallsFor(calls[k].entry)

C15_Witness ==
    /\ idx > Len(listing)
    /\ Len(listing) = 2
    /\ Len(calls) = 1
    /\ Truthy(args.patterns)
    /\ \A j \in DOMAIN listing :
          is_file(PathOf("d", listing[j])) /\ listing[j] # script_name

\* C16: a call that failed has logged the failure as its last record, and
\* every qualifying entry that the loop has passed since then was handed to
\* process_file.
C16_FailureEndsOneFileOnly ==
    \A k \in DOMAIN calls :
        calls[k].status = "failed" =>
            /\ log[calls[k].log_to] = FatalRec
            /\ \A j \in (calls[k].entry + 1)..(idx - 1) :
                  (j \in DOMAIN listing /\ Qualifies(j)) => CallsFor(j) # {}

C16_Witness ==
    \E k \in DOMAIN calls :
        /\ k < Len(calls)
        /\ calls[k].status = "failed"
        /\ calls[k].out_path \in DOMAIN fs
        /\ fs[calls[k].out_path].lines # <<>>
        /\ calls[k + 1].status = "returned"

----------------------------------------------------------------------------
(* process_file run again on the file it wrote *)

\* Longest input file, in lines, that InitRerun draws.
MaxRerunLines == 4

\* What is kept of a run that has ended.
OutputOf(kind) ==
    [kind |-> kind, out |-> out, block_count |-> block_count,
     report |-> log[Len(log)]]

InitRerun ==
    /\ input \in SeqsUpTo(LineIds, MaxRerunLines)
    /\ finalNL \in BOOLEAN
    /\ IsFile(input, finalNL)
    /\ pos = 1
    /\ pc = "scan"
    /\ n_atoms = 0
    /\ meta_values = <<>>
    /\ atom_lines = <<>>
    /\ i = 0
    /\ block_count = 0
    /\ out = <<>>
    /\ log = <<ProcessingRec>>
    /\ start = 0
    /\ hist = <<>>
    /\ NothingOutside

\* Lines 54-65: process_file is called on the file that the run which has
\* just ended wrote.
RunOnOutput ==
    /\ pc = "done"
    /\ prev.kind \in {"none", "output"}
    /\ Started(AsFile(out))
    /\ log' = <<ProcessingRec>>
    /\ prev' = OutputOf("output")
    /\ UNCHANGED <<fs, listing, idx, args, call, calls, tasks, others>>

NextRerun ==
    \/ RunOnOutput
    \/ Next

SpecRerun == InitRerun /\ [][NextRerun]_vars

\* The interpreter goes on executing a call that can take a step.
FairRerun == SpecRerun /\ WF_vars(NextRerun)

\* C17: a run of process_file on a file that process_file wrote comes to its
\* end: it reaches line 137 and no exception leaves it.
C17_RerunTerminates ==
    (prev.kind = "output" /\ pc # "done") ~> (prev.kind = "output" /\ pc = "done")

C17_Witness ==
    /\ prev.kind = "output"
    /\ pc = "done"
    /\ \E k \in DOMAIN hist :
          /\ hist[k].ev = "MetaShort"
          /\ input[hist[k].at] = "h"

----------------------------------------------------------------------------
(* process_file run on the same file with blank lines added *)

\* Longest input file, in lines, that InitBlank draws, the lines it draws
\* from, and the most blank lines added to it.
MaxBlankLines == 4
BlankKinds == {"e", "0", "1", "m34", "m35"}
MaxInserted == 2

InitBlank ==
    /\ input \in SeqsUpTo(BlankKinds, MaxBlankLines)
    /\ finalNL \in BOOLEAN
    /\ IsFile(input, finalNL)
    /\ pos = 1
    /\ pc = "scan"
    /\ n_atoms = 0
    /\ meta_values = <<>>
    /\ atom_lines = <<>>
    /\ i = 0
    /\ block_count = 0
    /\ out = <<>>
    /\ log = <<ProcessingRec>>
    /\ start = 0
    /\ hist = <<>>
    /\ NothingOutside

\* The line numbers at which the run that has ended called readline() for a
\* count line (line 68); the last may be the end of the file.
ScanPositions == {hist[k].at : k \in {j \in DOMAIN hist : hist[j].pc = "scan"}}

\* lines with the lines of block put in before line p.
InsertAt(lines, p, block) ==
    SubSeq(lines, 1, p - 1) \o block \o SubSeq(lines, p, Len(lines))

\* Lines 54-65: process_file is called on the file of the run that has just
\* ended, to which n blank lines (empty, or of blanks only) were added where
\* that run was looking for a count line.
RunWithBlanks ==
    /\ pc = "done"
    /\ prev.kind = "none"
    /\ \E p \in ScanPositions, n \in 1..MaxInserted, b \in {"e", "w"},
          nl \in BOOLEAN :
          /\ p <= Len(input) => nl = finalNL
          /\ IsFile(InsertAt(input, p, [j \in 1..n |-> b]), nl)
          /\ Started(FileNode(InsertAt(input, p, [j \in 1..n |-> b]), nl))
    /\ log' = <<ProcessingRec>>
    /\ prev' = OutputOf("blanks")
    /\ UNCHANGED <<fs, listing, idx, args, call, calls, tasks, others>>

NextBlank ==
    \/ RunWithBlanks
    \/ Next

SpecBlank == InitBlank /\ [][NextBlank]_vars

\* C18: a run on a file to which blank lines were added, where the earlier
\* run was looking for a count line, writes the same output and reports the
\* same block count as the earlier run.
C18_BlankLinesAreFiller ==
    (prev.kind = "blanks" /\ pc = "done") =>
        /\ out = prev.out
        /\ block_count = prev.block_count
        /\ log[Len(log)] = prev.report

C18_Witness ==
    /\ prev.kind = "blanks"
    /\ pc = "done"
    /\ block_count = 2
    /\ Len(input) > 4
    /\ Text(input[3]).toks = <<>>
    /\ Text(input[2]).toks # <<>>

----------------------------------------------------------------------------
\* The block that the line read by step k belongs to, named by the number of
\* its first line: a line read in place of a count line starts a block.
BlockOf(k) == IF hist[k].pc = "scan" THEN hist[k].at ELSE hist[k].start

\* The block that starts at line b was written.
BlockEmitted(b) == \E e \in Emits : hist[e].start = b

\* A warning was logged about a line (or about the end of the file) that was
\* read for the block that starts at line b.
BlockWarned(b) ==
    \E r \in DOMAIN log :
        /\ log[r].level = "warning"
        /\ \E j \in DOMAIN hist :
              /\ hist[j].ev # "Emit"
              /\ hist[j].at = log[r].at
              /\ BlockOf(j) = b

\* C19: when process_file has ended, every input line that is not blank was
\* read, and every block for which a line was read was either written or has
\* a warning in the log.
C19_NoSilentLoss ==
    pc = "done" =>
        /\ \A p \in DOMAIN input :
              Text(input[p]).toks # <<>> =>
                  \E k \in DOMAIN hist : hist[k].ev # "Emit" /\ hist[k].at = p
        /\ \A k \in DOMAIN hist :
              hist[k].ev \notin {"Emit", "ScanBlank", "ScanEOF"} =>
                  BlockEmitted(BlockOf(k)) \/ BlockWarned(BlockOf(k))

C19_Witness ==
    /\ pc = "done"
    /\ \E k \in DOMAIN hist :
          /\ hist[k].ev = "SkipAtom"
          /\ hist[k].at <= Len(input)
          /\ Text(input[hist[k].at]).toks # <<>>
          /\ ~BlockEmitted(BlockOf(k))
    /\ \E k \in DOMAIN hist : hist[k].ev = "AtomEOF"

----------------------------------------------------------------------------
(* The files of a directory processed as parallel tasks *)

\* The directories that InitPar draws hold regular files only, each one to
\* be processed; two of the names derive the same output name.
ParNames ==
    {<<"a", ".", "t">>, <<"a", REFORMAT, ".", "t">>, <<"a", ".", REFORMAT>>,
     <<"a", REFORMAT, ".">>}
ParContents == {<<"1", "m35", "e">>, <<"e", "m34", "1", "m34", "e">>, <<"1", "m35">>,
                <<"1">>}

\* Most files of the directory, each of which becomes a task.
MaxTasks == 2

\* The directory as a caller finds it, kept in prev; process_directory is
\* run on it first.
InitPar ==
    /\ NoRun
    /\ \E S \in SUBSET ParNames :
          /\ S # {}
          /\ Cardinality(S) <= MaxTasks
          /\ listing = sorted(S)
          /\ \E content \in [S -> ParContents] :
                fs = [q \in {PathOf("d", n) : n \in S} |->
                         FileNode(content[q.name], TRUE)]
    /\ idx = 1
    /\ \E od \in {"None", "o"} :
          args = [target_dir |-> "d",
                  patterns |-> [none |-> TRUE, list |-> <<>>],
                  out_dir |-> od]
    /\ call = NoCall
    /\ calls = <<>>
    /\ tasks = <<>>
    /\ NoOthers
    /\ prev = [kind |-> "dir", fs |-> fs]

\* A task: process_file(file_path, out_dir), not yet started.
Task(file_path) ==
    [file_path |-> file_path, out_path |-> OutPath(file_path, args.out_dir),
     state |-> "new", result |-> <<>>]

\* The sequential pass is over: its files are kept in prev, the directory is
\* put back as it was, and a caller makes one task per file.
StartTasks ==
    /\ pc = "idle"
    /\ prev.kind = "dir"
    /\ idx > Len(listing)
    /\ tasks = <<>>
    /\ tasks' = [t \in DOMAIN listing |-> Task(PathOf(args.target_dir, listing[t]))]
    /\ fs' = prev.fs
    /\ prev' = [kind |-> "pass", fs |-> fs]
    /\ UNCHANGED <<run, listing, idx, args, call, calls, others>>

\* Lines 54-63 in task t: both files are opened; the output file is created
\* or truncated.  (The steps that a task takes between its reading and its
\* closing touch only its own buffers: they are taken without a step of
\* another task in between, which loses no outcome.)
TaskOpen(t) ==
    /\ pc = "idle"
    /\ tasks[t].state = "new"
    /\ fs' = OpenedForWriting(fs, tasks[t].out_path)
    /\ tasks' = [tasks EXCEPT ![t].state = "open"]
    /\ log' = Append(log, ProcessingRec)
    /\ UNCHANGED <<locals, listing, idx, args, call, calls, prev, others>>

\* Line 68 in task t: the first readline() fills fin's buffer with the file
\* as it is now (the files are shorter than a buffer); the loop starts.
TaskRead(t) ==
    /\ pc = "idle"
    /\ tasks[t].state = "open"
    /\ Started(fs[tasks[t].file_path])
    /\ call' = [file_path |-> tasks[t].file_path, out_path |-> tasks[t].out_path]
    /\ tasks' = [tasks EXCEPT ![t].state = "running"]
    /\ UNCHANGED <<fs, log, listing, idx, args, calls, prev, others>>

\* Line 137 in task t: the loop has ended; what it wrote is in fout's buffer.
TaskComputed(t) ==
    /\ pc = "done"
    /\ tasks[t].state = "running"
    /\ tasks' = [tasks EXCEPT ![t].state = "computed", ![t].result = out]
    /\ call' = NoCall
    /\ Returned
    /\ UNCHANGED <<fs, log, listing, idx, args, calls, prev, others>>

\* Line 63 in task t: the with statement closes fout, whose buffer goes to
\* the start of the file; lines that another task has put further on stay.
TaskClose(t) ==
    /\ pc = "idle"
    /\ tasks[t].state = "computed"
    /\ LET mine == AsFile(tasks[t].result).lines
           there == fs[tasks[t].out_path].lines
       IN  fs' = [fs EXCEPT ![tasks[t].out_path] =
                     FileNode(mine \o SubSeq(there, Len(mine) + 1, Len(there)),
                              TRUE)]
    /\ tasks' = [tasks EXCEPT ![t].state = "closed"]
    /\ UNCHANGED <<run, listing, idx, args, call, calls, prev, others>>

NextPar ==
    \/ CallProcessFile
    \/ ReturnToLoop
    \/ StartTasks
    \/ \E t \in DOMAIN tasks : TaskOpen(t)
    \/ \E t \in DOMAIN tasks : TaskRead(t)
    \/ \E t \in DOMAIN tasks : TaskComputed(t)
    \/ \E t \in DOMAIN tasks : TaskClose(t)
    \/ Next

SpecPar == InitPar /\ [][NextPar]_vars

\* C20: among the tasks of a directory no two write the same path, none
\* writes a path that another reads, and when all have ended each output
\* file is what the sequential pass made it.
C20_ParallelEqualsSequential ==
    tasks # <<>> =>
        /\ \A t, u \in DOMAIN tasks :
              t # u => /\ tasks[t].out_path # tasks[u].out_path
                       /\ tasks[t].out_path # tasks[u].file_path
        /\ (\A t \in DOMAIN tasks : tasks[t].state = "closed") =>
              \A t \in DOMAIN tasks :
                  fs[tasks[t].out_path] = prev.fs[tasks[t].out_path]

----------------------------------------------------------------------------
(* process_file run on a file of complete blocks and on each block alone *)

\* Most blocks of a file that InitBlocks draws, and the lines its blocks
\* are made of: a count line n, a metadata line that is too short or long
\* enough, and n atom lines (an empty one, or one that looks like a count
\* line).
MaxBlocks == 2
BlockCounts == {"0", "1", "2"}
BlockMetas == {"m34", "m35"}
BlockAtoms == {"e", "1"}

\* The number on a count line.
CountOf(c) == IntOf(Strip([text |-> Text(c), nl |-> 1]))

CompleteBlocks ==
    UNION {{<<c, m>> \o atoms :
               m \in BlockMetas, atoms \in [1..CountOf(c) -> BlockAtoms]} :
           c \in BlockCounts}

\* What else InitBlocks puts between blocks, so that the files it draws
\* are not of complete blocks only: an empty line, a line that is no count
\* line, a block that ends after its count line or inside its atom lines.
Fragments == {<<"e">>, <<"m34">>, <<"1">>, <<"1", "m35">>}

RECURSIVE Concat(_)
Concat(seqs) ==
    IF seqs = <<>> THEN <<>> ELSE Head(seqs) \o Concat(Tail(seqs))

\* A file cut into pieces, each a complete block or a fragment.
\* prev keeps the pieces, whether the file's last line has its newline, the
\* number k of the block being run alone (0: the whole file is being run),
\* what the run on the whole file wrote and what the runs on the blocks
\* before block k wrote.
InitBlocks ==
    /\ \E bs \in SeqsUpTo(CompleteBlocks \cup Fragments, MaxBlocks),
          nl \in BOOLEAN :
          /\ bs # <<>>
          /\ IsFile(Concat(bs), nl)
          /\ input = Concat(bs)
          /\ finalNL = nl
          /\ prev = [kind |-> "blocks", blocks |-> bs, nl |-> nl, k |-> 0,
                     whole |-> <<>>, parts |-> <<>>]
    /\ pos = 1
    /\ pc = "scan"
    /\ n_atoms = 0
    /\ meta_values = <<>>
    /\ atom_lines = <<>>
    /\ i = 0
    /\ block_count = 0
    /\ out = <<>>
    /\ log = <<ProcessingRec>>
    /\ start = 0
    /\ hist = <<>>
    /\ fs = <<>>
    /\ listing = <<>>
    /\ idx = 0
    /\ args = NoArgs
    /\ call = NoCall
    /\ calls = <<>>
    /\ tasks = <<>>
    /\ NoOthers

\* Lines 54-65: the run that has ended is kept and process_file is called
\* on a file that holds the next block only; the file's last block is cut
\* where the file ends, the others after their last newline.
RunBlockAlone ==
    /\ pc = "done"
    /\ prev.kind = "blocks"
    /\ prev.k < Len(prev.blocks)
    /\ Started(FileNode(prev.blocks[prev.k + 1],
                        IF prev.k + 1 = Len(prev.blocks) THEN prev.nl
                        ELSE TRUE))
    /\ log' = <<ProcessingRec>>
    /\ prev' = IF prev.k = 0
               THEN [prev EXCEPT !.k = 1, !.whole = out]
               ELSE [prev EXCEPT !.k = prev.k + 1, !.parts = prev.parts \o out]
    /\ UNCHANGED <<fs, listing, idx, args, call, calls, tasks, others>>

NextBlocks ==
    \/ RunBlockAlone
    \/ Next

SpecBlocks == InitBlocks /\ [][NextBlocks]_vars

\* C21: when the whole of a file of complete blocks and then each of its
\* blocks alone have been run, what the run on the whole file wrote is what the runs on the blocks
\* wrote, one after the other in the order of the blocks.
C21_BlocksIndependent ==
    (/\ prev.kind = "blocks"
     /\ \A j \in DOMAIN prev.blocks : prev.blocks[j] \in CompleteBlocks
     /\ prev.k = Len(prev.blocks)
     /\ pc = "done")
        => prev.whole = prev.parts \o out

\* Two blocks, the first skipped with its atom lines, the second written
\* with two atom lines.
C21_Witness ==
    /\ prev.kind = "blocks"
    /\ prev.k = Len(prev.blocks)
    /\ pc = "done"
    /\ Len(prev.blocks) = 2
    /\ prev.blocks[1] \in CompleteBlocks
    /\ prev.blocks[2] \in CompleteBlocks
    /\ prev.blocks[1][2] = "m34"
    /\ Len(prev.blocks[1]) > 2
    /\ prev.parts = <<>>
    /\ Len(out) = 4
    /\ prev.whole = out

----------------------------------------------------------------------------
(* process_file as a machine of two states *)

\* The state of the two-state machine that a place in process_file stands
\* for: looking for a count line, or inside a block (at its metadata line,
\* skipping or reading its atom lines); "done" is the machine stopped.
MachineState(p) ==
    CASE p = "scan" -> "SCANNING"
      [] p \in {"meta", "skip", "atoms"} -> "IN_BLOCK"
      [] OTHER -> "TERMINAL"

\* Step k wrote to the output.
Wrote(k) == hist[k].outlen # OutBefore(k)

\* C22: process_file starts in SCANNING; a step from SCANNING to IN_BLOCK
\* has read a line that int() accepts; the step that writes a block, and the
\* step that ends the skipping of one, lead from IN_BLOCK to SCANNING; only
\* a step that leaves IN_BLOCK after a line was read for each of the
\* range(n) iterations writes; and a step leads to TERMINAL exactly when it
\* is a readline() of line 68, 84 or 111 that returned "" (the end of the
\* input), and no step leaves TERMINAL.  Stated of the latest step: every
\* step of a run is the latest one in the state it leads to.
C22_TwoStateMachine ==
    /\ MachineState(IF hist = <<>> THEN pc ELSE hist[1].pc) = "SCANNING"
    /\ \A k \in {Len(hist)} \cap DOMAIN hist :
          /\ (MachineState(hist[k].pc) = "SCANNING"
                /\ MachineState(PcAfter(k)) = "IN_BLOCK")
               => /\ ReadsLine(k)
                  /\ IsIntText(Strip(ReadLine(hist[k].at)))
          /\ MachineState(hist[k].pc) # "TERMINAL"
          /\ (MachineState(hist[k].pc) # "IN_BLOCK"
                /\ MachineState(PcAfter(k)) = "SCANNING")
               => hist[k].ev \in {"ScanBlank", "ScanMalformed"}
          /\ hist[k].ev = "Emit"
               => /\ MachineState(hist[k].pc) = "IN_BLOCK"
                  /\ MachineState(PcAfter(k)) = "SCANNING"
          /\ (hist[k].ev \in {"MetaShort", "SkipAtom"} /\ PcAfter(k) # "skip")
               => /\ MachineState(hist[k].pc) = "IN_BLOCK"
                  /\ MachineState(PcAfter(k)) = "SCANNING"
          /\ Wrote(k)
               => /\ MachineState(hist[k].pc) = "IN_BLOCK"
                  /\ MachineState(PcAfter(k)) = "SCANNING"
                  /\ \A j \in 1..hist[k].n :
                        /\ k - j \in DOMAIN hist
                        /\ hist[k - j].ev = "ReadAtom"
                        /\ ReadsLine(k - j)
                        /\ hist[k - j].start = hist[k].start
          /\ MachineState(PcAfter(k)) = "TERMINAL"
               <=> /\ ~ReadsLine(k)
                   /\ hist[k].ev \notin {"Emit", "SkipAtom", "MetaShort"}

\* A finished run that entered a block twice: one block written with its
\* atom line, one skipped.
C22_Witness ==
    /\ pc = "done"
    /\ \E k \in DOMAIN hist : Wrote(k) /\ hist[k].n = 1
    /\ \E k \in DOMAIN hist : hist[k].ev = "MetaShort"

----------------------------------------------------------------------------
(* Termination of process_file *)

\* C23: every iteration of the while loop starts by reading one more line
\* of the input or by leaving the loop, and every call of process_file, on
\* whatever input, leaves the loop in the end.
C23_Terminates ==
    /\ [][(pc = "scan" /\ Len(hist') = Len(hist) + 1)
             => (pos' = pos + 1 \/ pc' = "done")]_vars
    /\ (pc # "done") ~> (pc = "done")

\* A first run that has ended after a blank line, a line that is no count,
\* and a block.
C23_Witness ==
    /\ prev.kind = "none"
    /\ pc = "done"
    /\ \E k \in DOMAIN hist : hist[k].ev = "ScanBlank"
    /\ \E k \in DOMAIN hist : hist[k].ev = "ScanMalformed"
    /\ \E k \in DOMAIN hist : hist[k].ev \in {"Emit", "SkipAtom"}

----------------------------------------------------------------------------
\* C24: a line read for a count starts a block only if the integer on it is
\* not negative, no block is written with a negative count, and a count line
\* 0 followed by a metadata line of at least 35 tokens is written as a block
\* of two lines, count line and header.
C24_NonNegativeCountOnly ==
    \A k \in DOMAIN hist :
        /\ (hist[k].pc = "scan" /\ ReadsLine(k) /\ TokensRead(k) # <<>>
              /\ IsIntText(Strip(ReadLine(hist[k].at)))
              /\ IntOf(Strip(ReadLine(hist[k].at))) < 0)
             => MachineState(PcAfter(k)) = "SCANNING"
        /\ Wrote(k) => hist[k].n >= 0
        /\ (hist[k].ev = "MetaAccept" /\ hist[k].n = 0 /\ k < Len(hist))
             => /\ hist[k + 1].ev = "Emit"
                /\ WrittenBy(k + 1) = BlockOutput(0, ExtractMeta(TokensRead(k)), <<>>)

----------------------------------------------------------------------------
\* C25: in a pass that writes next to the sources, no path that a call of
\* the pass opened for writing (and wrote) is the path that a call of the
\* pass reads.
C25_OutputsDisjointFromInputs ==
    args.out_dir = "None" =>
        \A k, j \in DOMAIN calls :
            calls[k].status # "failed" =>
                calls[k].out_path # calls[j].file_path

----------------------------------------------------------------------------
(* The older reformat function, src/Nanci_reformat&ingest_example(xyz).py *)

\* Longest input file, in lines, that InitOld draws, and the lines it draws
\* from.
MaxOldLines == 3
OldKinds == {"e", "0", "1", "-1", "m34", "m35", "m36"}

\* The empty string as an element of a split line.
NoTok == [pre |-> "", body |-> "none", v |-> 0]

\* s.split(' ') for a string s as readline() returned it, every blank of
\* the line being one space: an element for each token, an empty element
\* before a blank that starts the line and after one that ends it; the
\* newline is not a separator and stays on the last element.
SplitSpace(s) ==
    LET t == s.text
        elems == IF t.toks = <<>>
                 THEN IF t.lead \/ t.trail THEN <<NoTok, NoTok>>
                      ELSE <<NoTok>>
                 ELSE (IF t.lead THEN <<NoTok>> ELSE <<>>) \o t.toks
                      \o (IF t.trail THEN <<NoTok>> ELSE <<>>)
    IN  [k \in 1..Len(elems) |->
            [tok |-> elems[k], nl |-> IF k = Len(elems) THEN s.nl ELSE 0]]

\* Lines 36-40: data[16], ..., data[34] put into the format string, as the
\* lines that the write adds to the file.  An element that carries the
\* newline of the metadata line ends a line in the middle of the header;
\* the blank that follows it in the format string starts the next one.
OldHeader(data) ==
    LET vals == [k \in 1..Len(METADATA_INDICES) |->
                    data[METADATA_INDICES[k] + 1]]
        brk == {k \in DOMAIN vals : vals[k].nl = 1}
        labelled == [k \in DOMAIN vals |-> Labelled(LABELS[k], vals[k].tok)]
    IN  IF brk = {}
        THEN <<Written([lead |-> FALSE, toks |-> labelled \o <<MARKER>>,
                        trail |-> FALSE])>>
        ELSE LET b == CHOOSE k \in brk : TRUE
             IN  <<Written([lead |-> FALSE, toks |-> SubSeq(labelled, 1, b),
                            trail |-> FALSE]),
                   Written([lead |-> TRUE,
                            toks |-> SubSeq(labelled, b + 1, Len(labelled))
                                     \o <<MARKER>>,
                            trail |-> FALSE])>>

\* Line 38 raises IndexError when data has no element 34.
OldHeaderRaises(data) == Len(data) <= SeqMax(METADATA_INDICES)

\* process_file is run on every file of up to MaxOldLines lines; reformat is
\* called on the same file when it has ended.
InitOld ==
    /\ input \in SeqsUpTo(OldKinds, MaxOldLines)
    /\ finalNL \in BOOLEAN
    /\ IsFile(input, finalNL)
    /\ pos = 1
    /\ pc = "scan"
    /\ n_atoms = 0
    /\ meta_values = <<>>
    /\ atom_lines = <<>>
    /\ i = 0
    /\ block_count = 0
    /\ out = <<>>
    /\ log = <<ProcessingRec>>
    /\ start = 0
    /\ hist = <<>>
    /\ NothingOutside

\* Lines 18-24: reformat(file_address) is called, for a file address that
\* has its two dots; both files are open and the loop starts.  nf is what
\* has been written, line by line; pos is the position of f.
CallReformat ==
    /\ pc = "done"
    /\ reformat = NoReformat
    /\ reformat' = [pc |-> "count", pos |-> 1, do |-> TRUE, n |-> 0,
                    data |-> <<>>, atoms |-> <<>>, i |-> 0, nf |-> <<>>,
                    printed |-> 0]
    /\ UNCHANGED <<run, dirpass, script, reader>>

\* Line 27: int(f.readline()) succeeds.
ReformatCount ==
    /\ reformat # NoReformat
    /\ reformat.pc = "count"
    /\ IsIntText(Strip(ReadLine(reformat.pos)))
    /\ reformat' = [reformat EXCEPT
                       !.n = IntOf(Strip(ReadLine(reformat.pos))),
                       !.pos = Advance(reformat.pos),
                       !.pc = "data"]
    /\ UNCHANGED <<run, dirpass, script, reader>>

\* Lines 27, 42-44: int(f.readline()) raises ValueError, at the end of the
\* file or on a line that is no integer; the loop ends.
ReformatCountRaises ==
    /\ reformat # NoReformat
    /\ reformat.pc = "count"
    /\ ~IsIntText(Strip(ReadLine(reformat.pos)))
    /\ reformat' = [reformat EXCEPT
                       !.pos = Advance(reformat.pos),
                       !.printed = reformat.printed + 1,
                       !.do = FALSE,
                       !.pc = "done"]
    /\ UNCHANGED <<run, dirpass, script, reader>>

\* Lines 28-30: the next line, or "" at the end of the file, is split.
ReformatData ==
    /\ reformat # NoReformat
    /\ reformat.pc = "data"
    /\ reformat' = [reformat EXCEPT
                       !.data = SplitSpace(ReadLine(reformat.pos)),
                       !.pos = Advance(reformat.pos),
                       !.atoms = <<>>,
                       !.i = 0,
                       !.pc = "atoms"]
    /\ UNCHANGED <<run, dirpass, script, reader>>

\* Lines 31-32: one iteration; what readline() returns is added to atoms,
\* which is nothing at the end of the file.
ReformatAtom ==
    /\ reformat # NoReformat
    /\ reformat.pc = "atoms"
    /\ reformat.i < reformat.n
    /\ reformat' = [reformat EXCEPT
                       !.atoms = IF ReadLine(reformat.pos) = EmptyString
                                 THEN reformat.atoms
                                 ELSE Append(reformat.atoms,
                                             ReadLine(reformat.pos)),
                       !.pos = Advance(reformat.pos),
                       !.i = reformat.i + 1]
    /\ UNCHANGED <<run, dirpass, script, reader>>

\* Lines 35-41: the three writes of a block.
ReformatWrite ==
    /\ reformat # NoReformat
    /\ reformat.pc = "atoms"
    /\ reformat.i >= reformat.n
    /\ ~OldHeaderRaises(reformat.data)
    /\ reformat' = [reformat EXCEPT
                       !.nf = reformat.nf
                              \o <<Written(CountText(reformat.n))>>
                              \o OldHeader(reformat.data)
                              \o reformat.atoms,
                       !.pc = "count"]
    /\ UNCHANGED <<run, dirpass, script, reader>>

\* Lines 35-38, 42-44: the count line is written, then building the header
\* raises IndexError; the loop ends.
ReformatWriteRaises ==
    /\ reformat # NoReformat
    /\ reformat.pc = "atoms"
    /\ reformat.i >= reformat.n
    /\ OldHeaderRaises(reformat.data)
    /\ reformat' = [reformat EXCEPT
                       !.nf = reformat.nf
                              \o <<Written(CountText(reformat.n))>>,
                       !.printed = reformat.printed + 1,
                       !.do = FALSE,
                       !.pc = "done"]
    /\ UNCHANGED <<run, dirpass, script, reader>>

NextOld ==
    \/ CallReformat
    \/ ReformatCount
    \/ ReformatCountRaises
    \/ ReformatData
    \/ ReformatAtom
    \/ ReformatWrite
    \/ ReformatWriteRaises
    \/ Next

SpecOld == InitOld /\ [][NextOld]_vars

\* Both functions have ended on the same file.
BothEnded == pc = "done" /\ reformat # NoReformat /\ reformat.pc = "done"

\* The file is well-formed: blocks only, each an integer count line n, a
\* metadata line of at least 35 tokens with single blanks between them and
\* none around them, and n atom lines; and the last line has its newline.
WellFormedFile ==
    /\ finalNL
    /\ WellFormedBlocks(1) >= 0
    /\ \A p \in DOMAIN input :
          Len(Text(input[p]).toks) >= 35 =>
              ~Text(input[p]).lead /\ ~Text(input[p]).trail

\* C26: on a well-formed file reformat writes what process_file writes.
C26_SameOutputAsOlder ==
    (BothEnded /\ WellFormedFile) => reformat.nf = out

\* A line of a file is a header: ten labelled values and the marker.
IsHeaderLine(s) ==
    /\ Len(s.text.toks) = Len(LABELS) + 1
    /\ s.text.toks[Len(s.text.toks)] = MARKER

\* The lines of f from line p on are complete blocks: a count line n, a
\* header line and n more lines.
RECURSIVE CompleteFrom(_, _)
CompleteFrom(f, p) ==
    IF p > Len(f) THEN TRUE
    ELSE /\ IsCountLine(f[p].text)
         /\ f[p].text.toks[1].v >= 0
         /\ p + 1 + f[p].text.toks[1].v <= Len(f)
         /\ IsHeaderLine(f[p + 1])
         /\ CompleteFrom(f, p + 2 + f[p].text.toks[1].v)

\* C27: the file that reformat has written consists of complete blocks.
C27_OlderWritesCompleteBlocks ==
    (reformat # NoReformat /\ reformat.pc = "done")
        => CompleteFrom(reformat.nf, 1)

----------------------------------------------------------------------------
(* The ingest scripts that have a main(): Coll_in_Progress(xyz).py,        *)
(* Flexible_molecules.py, WS22_inProgress(npz).py, OrbNet(xyz_in_folder).py *)

Scripts == {"Coll", "Flex", "WS22", "OrbNet"}

\* cs_info of main(): the names of its entries (OrbNet's main has none and
\* makes no configuration set).
cs_info(name) ==
    CASE name = "Coll" -> <<"Coll_test", "Coll_train", "Coll_validation">>
      [] name = "Flex" -> <<"Azobenzene_inversion",
                            "Azobenzene_rotation_and_inversion",
                            "Azobenzene_rotation", "Glycine">>
      [] name = "WS22" -> <<"acrolein", "nitrophenol", "dmabn", "sma", "urea",
                            "thymine", "urocanic", "alanine", "o-hbdi",
                            "toluene">>
      [] OTHER -> <<>>

\* main() of Coll and Flex re-raises what insert_data() and zip(*ids)
\* raise; main() of WS22 and OrbNet returns.
Reraises(name) == name \in {"Coll", "Flex"}

\* What list(client.insert_data(...)) may be: no id, pairs
\* (co_id, pr_id), or tuples that are no pairs.
IdLists ==
    {<<>>,
     <<<<"co1", "pr1">>>>,
     <<<<"co1", "pr1">>, <<"co2", "pr2">>>>,
     <<<<"co1">>>>,
     <<<<"co1", "pr1", "x">>, <<"co2", "pr2">>>>}

\* zip(*ids) yields as many tuples as the shortest element of ids has
\* members; co_ids, pr_ids = zip(*ids) raises ValueError unless it yields
\* two.
ZipLen(ids) ==
    CHOOSE m \in {Len(ids[k]) : k \in DOMAIN ids} :
        \A k \in DOMAIN ids : m <= Len(ids[k])

UnzipRaises(ids) == ZipLen(ids) # 2

\* A record of the database: who inserted it, what it is, its name.
DbRec(by, what, name) == [by |-> by, what |-> what, name |-> name]

\* A client call of main() in the history: the method, the cs_info entry it
\* was made for (0: none), whether it returned, what it returned.
ClientCall(op, entry, ok, result) ==
    [op |-> op, entry |-> entry, ok |-> ok, result |-> result]

\* One of the four scripts is started as a script; the database holds the
\* records of an earlier session or none.
InitIngest ==
    /\ NoRun
    /\ fs = <<>>
    /\ listing = <<>>
    /\ idx = 0
    /\ args = NoArgs
    /\ call = NoCall
    /\ calls = <<>>
    /\ tasks = <<>>
    /\ prev = NoPrev
    /\ reformat = NoReformat
    /\ reader = NoReader
    /\ \E name \in Scripts, old \in {{}, {DbRec("earlier", "dataset", "")}} :
          script = [name |-> name, pc |-> "main", db |-> old,
                    inserted |-> {}, ids |-> <<>>, all_co_ids |-> <<>>,
                    all_pr_ids |-> <<>>, cs_ids |-> <<>>, entry |-> 0,
                    trace |-> <<>>, traceback |-> FALSE]

\* main() leaves by return: the statements after the call of main() are next.
MainReturns(s) == [s EXCEPT !.pc = "imports"]

\* main() leaves by an exception, which ends the script.
MainRaises(s) == [s EXCEPT !.pc = "end", !.traceback = TRUE]

\* main(), its first statement: MongoDatabase(..., drop_database=True)
\* drops the database; the constructor may raise.
MainConnect ==
    /\ script # NoScript
    /\ script.pc = "main"
    /\ \E ok \in BOOLEAN :
          script' = IF ok
                    THEN [script EXCEPT !.pc = "load", !.db = {}]
                    ELSE MainRaises(script)
    /\ UNCHANGED <<run, dirpass, reformat, reader>>

\* The configurations are loaded.  When that fails: Coll and Flex re-raise,
\* WS22 goes on with the next data set, OrbNet returns (no labels file, or
\* no structure).
MainLoad ==
    /\ script # NoScript
    /\ script.pc = "load"
    /\ \E ok \in BOOLEAN :
          script' = IF ok \/ script.name = "WS22"
                    THEN [script EXCEPT !.pc = "definitions"]
                    ELSE IF script.name = "OrbNet" THEN MainReturns(script)
                    ELSE MainRaises(script)
    /\ UNCHANGED <<run, dirpass, reformat, reader>>

\* client.insert_property_definition(...): what it raises is logged and
\* passed over.
MainPropertyDefinitions ==
    /\ script # NoScript
    /\ script.pc = "definitions"
    /\ \E ok \in BOOLEAN :
          script' =
              [script EXCEPT
                  !.pc = "insert_data",
                  !.db = IF ok
                         THEN @ \cup {DbRec("main", "property-definition", "")}
                         ELSE @,
                  !.inserted =
                      IF ok
                      THEN @ \cup {DbRec("main", "property-definition", "")}
                      ELSE @]
    /\ UNCHANGED <<run, dirpass, reformat, reader>>

\* ids = list(client.insert_data(...)) returns.
MainInsertData ==
    /\ script # NoScript
    /\ script.pc = "insert_data"
    /\ \E ids \in IdLists :
          script' =
              [script EXCEPT
                  !.pc = "check_ids",
                  !.ids = ids,
                  !.db = IF ids # <<>>
                         THEN @ \cup {DbRec("main", "data", "")} ELSE @,
                  !.inserted = IF ids # <<>>
                               THEN @ \cup {DbRec("main", "data", "")} ELSE @,
                  !.trace = Append(@, ClientCall("insert_data", 0, TRUE, ids))]
    /\ UNCHANGED <<run, dirpass, reformat, reader>>

\* client.insert_data(...) raises.
MainInsertDataRaises ==
    /\ script # NoScript
    /\ script.pc = "insert_data"
    /\ script' =
          [(IF Reraises(script.name) THEN MainRaises(script)
            ELSE MainReturns(script))
           EXCEPT !.trace = Append(@, ClientCall("insert_data", 0, FALSE, <<>>))]
    /\ UNCHANGED <<run, dirpass, reformat, reader>>

\* if not ids: return
MainNoIds ==
    /\ script # NoScript
    /\ script.pc = "check_ids"
    /\ script.ids = <<>>
    /\ script' = MainReturns(script)
    /\ UNCHANGED <<run, dirpass, reformat, reader>>

\* co_ids, pr_ids = zip(*ids) and the two lists made of them; OrbNet's
\* main goes on to insert_dataset, the others to the loop over cs_info.
MainUnzip ==
    /\ script # NoScript
    /\ script.pc = "check_ids"
    /\ script.ids # <<>>
    /\ ~UnzipRaises(script.ids)
    /\ script' =
          [script EXCEPT
              !.all_co_ids = [k \in DOMAIN script.ids |-> script.ids[k][1]],
              !.all_pr_ids = [k \in DOMAIN script.ids |-> script.ids[k][2]],
              !.cs_ids = <<>>,
              !.entry = 1,
              !.pc = IF script.name = "OrbNet" THEN "dataset" ELSE "cs_loop"]
    /\ UNCHANGED <<run, dirpass, reformat, reader>>

\* co_ids, pr_ids = zip(*ids) raises.
MainUnzipRaises ==
    /\ script # NoScript
    /\ script.pc = "check_ids"
    /\ script.ids # <<>>
    /\ UnzipRaises(script.ids)
    /\ script' = IF Reraises(script.name) THEN MainRaises(script)
                 ELSE MainReturns(script)
    /\ UNCHANGED <<run, dirpass, reformat, reader>>

\* A slip: break after the exception is logged.
MainConfigurationSetRaises_break ==
    /\ script # NoScript
    /\ script.pc = "cs_loop"
    /\ script.entry <= Len(cs_info(script.name))
    /\ script' =
          [script EXCEPT
              !.entry = Len(cs_info(script.name)) + 1,
              !.trace = Append(@, ClientCall("query_and_insert_configuration_set",
                                             script.entry, FALSE, ""))]
    /\ UNCHANGED <<run, dirpass, reformat, reader>>

\* One iteration of the loop over cs_info in which
\* client.query_and_insert_configuration_set(...) raises: logged, next entry.
MainConfigurationSetRaises ==
    /\ script # NoScript
    /\ script.pc = "cs_loop"
    /\ script.entry <= Len(cs_info(script.name))
    /\ script' =
          [script EXCEPT
              !.entry = @ + 1,
              !.trace = Append(@, ClientCall("query_and_insert_configuration_set",
                                             script.entry, FALSE, ""))]
    /\ UNCHANGED <<run, dirpass, reformat, reader>>

\* One iteration in which the call returns cs_id (here: an id made of the
\* entry's name), which is appended to cs_ids.
MainConfigurationSet ==
    /\ script # NoScript
    /\ script.pc = "cs_loop"
    /\ script.entry <= Len(cs_info(script.name))
    /\ LET name == cs_info(script.name)[script.entry]
       IN  script' =
               [script EXCEPT
                   !.cs_ids = Append(@, name),
                   !.entry = @ + 1,
                   !.db = @ \cup {DbRec("main", "configuration-set", name)},
                   !.inserted =
                       @ \cup {DbRec("main", "configuration-set", name)},
                   !.trace =
                       Append(@, ClientCall("query_and_insert_configuration_set",
                                            script.entry, TRUE, name))]
    /\ UNCHANGED <<run, dirpass, reformat, reader>>

\* if not cs_ids: return
MainNoConfigurationSets ==
    /\ script # NoScript
    /\ script.pc = "cs_loop"
    /\ script.entry > Len(cs_info(script.name))
    /\ script.cs_ids = <<>>
    /\ script' = MainReturns(script)
    /\ UNCHANGED <<run, dirpass, reformat, reader>>

\* The loop over cs_info is over and cs_ids is not empty.
MainLoopEnds ==
    /\ script # NoScript
    /\ script.pc = "cs_loop"
    /\ script.entry > Len(cs_info(script.name))
    /\ script.cs_ids # <<>>
    /\ script' = [script EXCEPT !.pc = "dataset"]
    /\ UNCHANGED <<run, dirpass, reformat, reader>>

\* client.insert_dataset(...): what it raises is logged; main() returns.
MainInsertDataset ==
    /\ script # NoScript
    /\ script.pc = "dataset"
    /\ \E ok \in BOOLEAN :
          script' =
              [MainReturns(script) EXCEPT
                  !.db = IF ok THEN @ \cup {DbRec("main", "dataset", "")}
                         ELSE @,
                  !.inserted = IF ok THEN @ \cup {DbRec("main", "dataset", "")}
                               ELSE @,
                  !.trace = Append(@, ClientCall("insert_dataset", 0, ok,
                                                 script.cs_ids))]
    /\ UNCHANGED <<run, dirpass, reformat, reader>>

\* The import statements that follow the call of main(); one that fails
\* ends the script.
ModuleImports ==
    /\ script # NoScript
    /\ script.pc = "imports"
    /\ \E ok \in BOOLEAN :
          script' = IF ok THEN [script EXCEPT !.pc = "connect"]
                    ELSE [script EXCEPT !.pc = "end", !.traceback = TRUE]
    /\ UNCHANGED <<run, dirpass, reformat, reader>>

\* The module-level client = MongoDatabase(..., drop_database=True) that
\* follows: the database is dropped.
ModuleConnect ==
    /\ script # NoScript
    /\ script.pc = "connect"
    /\ script' = [script EXCEPT !.pc = "legacy", !.db = {}]
    /\ UNCHANGED <<run, dirpass, reformat, reader>>

\* How far the module-level statements after it can get: they run, with no
\* try around them, until one raises or to the end of the file.  Those of
\* Coll never reach insert_dataset: the configuration-set call before it
\* reads the names i and cs_info['name'], which raises.
LegacyOutcomes(name) ==
    IF name = "Coll" THEN {{}, {"data"}}
    ELSE {{}, {"data"}, {"data", "dataset"}}

\* The module-level statements after it (load_data, insert_data,
\* insert_dataset): they insert records of their own.
ModuleLegacy ==
    /\ script # NoScript
    /\ script.pc = "legacy"
    /\ \E done \in LegacyOutcomes(script.name) :
          script' =
              [script EXCEPT
                  !.pc = "end",
                  !.traceback = done # {"data", "dataset"},
                  !.db = @ \cup {DbRec("module", w, "") : w \in done}]
    /\ UNCHANGED <<run, dirpass, reformat, reader>>

NextIngest ==
    \/ MainConnect
    \/ MainLoad
    \/ MainPropertyDefinitions
    \/ MainInsertData
    \/ MainInsertDataRaises
    \/ MainNoIds
    \/ MainUnzip
    \/ MainUnzipRaises
    \/ MainConfigurationSetRaises
    \/ MainConfigurationSet
    \/ MainNoConfigurationSets
    \/ MainLoopEnds
    \/ MainInsertDataset
    \/ ModuleImports
    \/ ModuleConnect
    \/ ModuleLegacy

SpecIngest == InitIngest /\ [][NextIngest]_vars


\* The calls of client.query_and_insert_configuration_set that main() has
\* made, in order, and those of them that returned.
IsCsCall(c) == c.op = "query_and_insert_configuration_set"

IsCsReturn(c) == IsCsCall(c) /\ c.ok

CsCalls == SelectSeq(script.trace, IsCsCall)

CsReturns == SelectSeq(script.trace, IsCsReturn)

\* C28: in main() of Coll, Flexible_molecules and WS22, insert_dataset is
\* called at most once, only after insert_data returned a non-empty list of
\* ids and a configuration-set call returned; a configuration-set call that
\* raises skips its entry only (the calls are made for the entries 1, 2, ...
\* of cs_info one after the other, all of them before insert_dataset), and
\* cs_ids holds the ids of the entries whose call returned, in cs_info order.
C28_DatasetAfterIdsAndSets ==
    (script # NoScript /\ script.name \in {"Coll", "Flex", "WS22"}) =>
        LET T == script.trace
            DS == {k \in DOMAIN T : T[k].op = "insert_dataset"}
        IN  /\ Cardinality(DS) <= 1
            /\ \A k \in DS :
                  /\ \E d \in 1..(k - 1) : /\ T[d].op = "insert_data"
                                           /\ T[d].ok
                                           /\ T[d].result # <<>>
                  /\ \E j \in 1..(k - 1) : IsCsReturn(T[j])
                  /\ \A j \in DOMAIN T : IsCsCall(T[j]) => j < k
                  /\ Len(CsCalls) = Len(cs_info(script.name))
                  /\ T[k].result = script.cs_ids
            /\ \A k \in DOMAIN CsCalls : CsCalls[k].entry = k
            /\ script.pc = "cs_loop" => Len(CsCalls) = script.entry - 1
            /\ script.pc = "dataset" =>
                   Len(CsCalls) = Len(cs_info(script.name))
            /\ script.pc \in {"cs_loop", "dataset"} =>
                  /\ Len(script.cs_ids) = Len(CsReturns)
                  /\ \A k \in DOMAIN CsReturns :
                        /\ script.cs_ids[k] = CsReturns[k].result
                        /\ script.cs_ids[k] =
                               cs_info(script.name)[CsReturns[k].entry]

\* main() of Coll has called insert_dataset after the call for the first
\* entry of cs_info raised and a later one returned.
C28_Witness ==
    /\ script # NoScript
    /\ script.name = "Coll"
    /\ script.pc = "imports"
    /\ Len(script.trace) = 5
    /\ script.trace[5].op = "insert_dataset"
    /\ ~script.trace[2].ok
    /\ script.trace[3].ok
    /\ ~script.trace[4].ok
    /\ script.cs_ids = <<"Coll_train">>


\* C29: run as a script, no step after main() has inserted the data set
\* drops the database: what main() inserted is in the database at every
\* step after main() and when the script ends.
C29_MainRecordsKept ==
    (/\ script # NoScript
     /\ script.pc \in {"imports", "connect", "legacy", "end"}
     /\ DbRec("main", "dataset", "") \in script.inserted)
        => script.inserted \subseteq script.db

----------------------------------------------------------------------------
(* OrbNet(xyz_in_folder).py: reader_OrbNet_from_df(df, base_xyz_dir)       *)

MaxRows == 3

\* What a row of df stands for: its xyz file exists and read() returns
\* ("ok"), the same with a dft_energy that float() refuses ("text"), its xyz
\* file does not exist ("nofile"), read() raises ("badread").
RowKinds == {"ok", "text", "nofile", "badread"}

\* The labels of df.index: main() makes them of the first column of the
\* csv file (index_col=0), which may hold a value more than once.
IndexLabels == {0, 1}

\* The call reader_OrbNet_from_df(df, base_xyz_dir) on a data frame of up to
\* MaxRows rows: structures = [], missing = 0, the loop at its first label.
InitReader ==
    /\ NoRun
    /\ fs = <<>>
    /\ listing = <<>>
    /\ idx = 0
    /\ args = NoArgs
    /\ call = NoCall
    /\ calls = <<>>
    /\ tasks = <<>>
    /\ prev = NoPrev
    /\ reformat = NoReformat
    /\ script = NoScript
    /\ \E len \in 0..MaxRows :
          \E rows \in [1..len -> RowKinds], labels \in [1..len -> IndexLabels] :
              reader = [rows |-> rows, labels |-> labels, at |-> 1,
                        structures |-> <<>>, missing |-> 0, logged |-> <<>>,
                        pc |-> "loop", result |-> <<>>]

\* df.at[label, column] is the cell of the row when the label is that of one
\* row only; for a label that several rows have it is the column of all of
\* them, and str() of it is no name of a folder or file.
LabelIsUnique(r, k) ==
    \A o \in DOMAIN r.labels : r.labels[o] = r.labels[k] => o = k

\* os.path.exists(fpath) for the path built for row k.
PathExists(r, k) == LabelIsUnique(r, k) /\ r.rows[k] # "nofile"

\* An iteration that finds no file at fpath: warning, missing += 1, continue.
RowMissing ==
    /\ reader # NoReader
    /\ reader.pc = "loop"
    /\ reader.at <= Len(reader.rows)
    /\ ~PathExists(reader, reader.at)
    /\ reader' = [reader EXCEPT
                     !.missing = @ + 1,
                     !.logged = Append(@, [level |-> "warning",
                                           row |-> reader.at]),
                     !.at = @ + 1]
    /\ UNCHANGED <<run, dirpass, reformat, script>>

\* An iteration in which read(fpath) raises: logged by the outer except
\* clause, continue.
RowRaises ==
    /\ reader # NoReader
    /\ reader.pc = "loop"
    /\ reader.at <= Len(reader.rows)
    /\ PathExists(reader, reader.at)
    /\ reader.rows[reader.at] = "badread"
    /\ reader' = [reader EXCEPT
                     !.logged = Append(@, [level |-> "exception",
                                           row |-> reader.at]),
                     !.at = @ + 1]
    /\ UNCHANGED <<run, dirpass, reformat, script>>

\* An iteration that reads the file and appends the structure; info['energy']
\* is float(dft_energy), or the cell itself when float() raises.
RowAppended ==
    /\ reader # NoReader
    /\ reader.pc = "loop"
    /\ reader.at <= Len(reader.rows)
    /\ PathExists(reader, reader.at)
    /\ reader.rows[reader.at] \in {"ok", "text"}
    /\ reader' = [reader EXCEPT
                     !.structures =
                         Append(@, [row |-> reader.at,
                                    energy |-> IF reader.rows[reader.at] = "ok"
                                               THEN "float" ELSE "cell"]),
                     !.at = @ + 1]
    /\ UNCHANGED <<run, dirpass, reformat, script>>

\* The loop is over: the totals are logged and structures is returned.
ReaderReturns ==
    /\ reader # NoReader
    /\ reader.pc = "loop"
    /\ reader.at > Len(reader.rows)
    /\ reader' = [reader EXCEPT
                     !.logged = Append(@, [level |-> "info", row |-> 0]),
                     !.pc = "returned",
                     !.result = reader.structures]
    /\ UNCHANGED <<run, dirpass, reformat, script>>

NextReader ==
    \/ RowMissing
    \/ RowRaises
    \/ RowAppended
    \/ ReaderReturns

SpecReader == InitReader /\ [][NextReader]_vars

\* The rows, in order, whose own xyz file exists and is read without error.
ReadableRows ==
    SelectSeq([k \in DOMAIN reader.rows |-> k],
              LAMBDA k : reader.rows[k] \in {"ok", "text"})

\* C30: reader_OrbNet_from_df returns, in row order, exactly one structure
\* for each row whose xyz file exists and is read without error; a row whose
\* file is missing is logged and counted in missing, a row that raises is
\* logged, no exception reaches the caller, and len(structures) + missing is
\* at most the number of rows.
C30_OneStructurePerReadableRow ==
    (reader # NoReader) =>
        /\ reader.pc \in {"loop", "returned"}
        /\ Len(reader.structures) + reader.missing <= Len(reader.rows)
        /\ \A k \in 1..(reader.at - 1) :
              /\ reader.rows[k] = "nofile" =>
                     [level |-> "warning", row |-> k] \in
                         {reader.logged[m] : m \in DOMAIN reader.logged}
              /\ (\A m \in DOMAIN reader.structures :
                       reader.structures[m].row # k) =>
                     \E m \in DOMAIN reader.logged : reader.logged[m].row = k
        /\ reader.pc = "returned" =>
              /\ Len(reader.result) = Len(ReadableRows)
              /\ \A k \in DOMAIN ReadableRows :
                    reader.result[k].row = ReadableRows[k]
              /\ reader.missing =
                     Cardinality({k \in DOMAIN reader.rows :
                                      reader.rows[k] = "nofile"})

=============================================================================
